---- MODULE Spec2Model ----
(***************************************************************************)
(* podCI: a local-first CI runner that executes the steps of a job inside  *)
(* rootless podman containers.  The module models                          *)
(*   - the run orchestrator (crates/cli, fn run) and the image resolver,   *)
(*   - the podman adapter's view of the container engine (images, volumes),*)
(*   - the manifest store,                                                 *)
(*   - prune (crates/cli, fn prune / plan_prune_volumes) and the generic   *)
(*     prune planner (crates/gc, select_prune_candidates).                 *)
(* Strings the code inspects character by character are sequences of       *)
(* one-character strings.                                                  *)
(***************************************************************************)
EXTENDS Integers, Sequences, FiniteSets, TLC

VARIABLES run, engine, fs, pr, gc, dr, pf

vars == <<run, engine, fs, pr, gc, dr, pf>>

----------------------------------------------------------------------------
(* Bounds of the model *)

\* longest step_order of a job
MaxSteps == 2
\* number of volumes in the engine when prune starts
MaxVols == 3
\* largest creation time (in days) of a volume or resource
MaxTime == 3
\* longest resource list handed to select_prune_candidates
MaxRes == 3
\* largest keep count of a prune policy
MaxKeep == 2
\* largest max-age (older_than_days) of a prune policy
MaxAge == 2
\* number of consecutive resolve calls in the image-resolver specification
MaxResolves == 3
\* insertions into one map of a configuration
MaxInserts == 2
\* longest project name handed to namespace_from
MaxName == 2
\* longest container reference that is not a catalog name
MaxRef == 3
\* number of messages in the stderr of a failed subprocess
MaxMsgs == 2
\* longest error chain of a failed command
MaxChain == 3
\* longest step.workdir
MaxPath == 4

None == "<none>"

----------------------------------------------------------------------------
(* Sequences and characters *)

Range(s) == {s[i] : i \in 1..Len(s)}

\* s.contains(sub) for strings as character sequences
Contains(s, sub) ==
    \E i \in 0..(Len(s) - Len(sub)) :
        \A j \in 1..Len(sub) : s[i + j] = sub[j]

\* s.starts_with(c)
StartsWith(s, c) == Len(s) > 0 /\ s[1] = c

Lower == {"a","b","c","d","e","f","g","h","i","j","k","l","m",
          "n","o","p","q","r","s","t","u","v","w","x","y","z"}
Upper == {"A","B","C","D","E","F","G","H","I","J","K","L","M",
          "N","O","P","Q","R","S","T","U","V","W","X","Y","Z"}
Digit == {"0","1","2","3","4","5","6","7","8","9"}

\* char::is_ascii_alphanumeric
is_ascii_alphanumeric(c) == c \in Lower \cup Upper \cup Digit

\* char::is_whitespace
is_whitespace(c) == c \in {" ", "\t", "\n"}

----------------------------------------------------------------------------
(* The template catalog and container references *)

RustDebian == <<"r","u","s","t","-","d","e","b","i","a","n">>
RustAlpine == <<"r","u","s","t","-","a","l","p","i","n","e">>
CppDebian == <<"c","p","p","-","d","e","b","i","a","n">>
KdeMixedDebian == <<"k","d","e","-","m","i","x","e","d","-","d","e","b","i","a","n">>

\* podci_templates::containerfile_for(name).is_ok()
containerfile_for_ok(container) ==
    container \in {RustAlpine, RustDebian, CppDebian, KdeMixedDebian}

\* classify_container_ref that takes a bare unknown name for an image reference
classify_container_ref_Guess(container) ==
    IF containerfile_for_ok(container) THEN "SymbolicTemplate"
    ELSE IF \E i \in 1..Len(container) :
               \/ is_whitespace(container[i])
               \/ ~(\/ is_ascii_alphanumeric(container[i])
                    \/ container[i] \in {".","-","_","/","@",":"})
         THEN "invalid container reference"
         ELSE "ExplicitImageRef"

\* classify_container_ref: "SymbolicTemplate", "ExplicitImageRef", or the error
classify_container_ref(container) ==
    IF containerfile_for_ok(container) THEN "SymbolicTemplate"
    ELSE IF "/" \in Range(container) \/ ":" \in Range(container) \/ "@" \in Range(container)
         THEN IF \E i \in 1..Len(container) :
                    \/ is_whitespace(container[i])
                    \/ ~(\/ is_ascii_alphanumeric(container[i])
                         \/ container[i] \in {".","-","_","/","@",":"})
              THEN "invalid container reference"
              ELSE "ExplicitImageRef"
         ELSE "unknown container template"

----------------------------------------------------------------------------
(* Step working directories *)

\* An Option<T> is <<>> (None) or <<v>> (Some(v))
IsSome(o) == o # <<>>

Work == <<"/","w","o","r","k">>

\* resolve_workdir without the check that the directory exists
resolve_workdir_Unchecked(rel, hostDirs) ==
    IF ~IsSome(rel)
    THEN [ok |-> TRUE, display |-> Work, err |-> None]
    ELSE IF StartsWith(rel[1], "/")
    THEN [ok |-> FALSE, display |-> <<>>, err |-> "workdir absolute"]
    ELSE IF Contains(rel[1], <<".",".">>)
    THEN [ok |-> FALSE, display |-> <<>>, err |-> "workdir contains .."]
    ELSE [ok |-> TRUE, display |-> Work \o <<"/">> \o rel[1], err |-> None]

\* resolve_workdir(repo_root, rel): the error, or the directory inside the container;
\* hostDirs are the paths below the repository root that exist on the host
resolve_workdir(rel, hostDirs) ==
    IF ~IsSome(rel)
    THEN [ok |-> TRUE, display |-> Work, err |-> None]
    ELSE IF StartsWith(rel[1], "/")
    THEN [ok |-> FALSE, display |-> <<>>, err |-> "workdir absolute"]
    ELSE IF Contains(rel[1], <<".",".">>)
    THEN [ok |-> FALSE, display |-> <<>>, err |-> "workdir contains .."]
    ELSE IF rel[1] \notin hostDirs
    THEN [ok |-> FALSE, display |-> <<>>, err |-> "workdir does not exist"]
    ELSE [ok |-> TRUE, display |-> Work \o <<"/">> \o rel[1], err |-> None]

\* sanitize_for_filename(step name)
sanitize_for_filename(s) ==
    LET out == [i \in 1..Len(s) |->
                    IF is_ascii_alphanumeric(s[i]) \/ s[i] \in {"-","_","."}
                    THEN s[i] ELSE "_"]
    IN IF out = <<>> THEN <<"s","t","e","p">> ELSE out

----------------------------------------------------------------------------
(* Inputs of a run *)

\* the processes that may invoke `podci run` at the same time
Runs == {1, 2}

DigitSeq == <<"1","2","3","4","5","6","7","8","9">>

\* the name of the i-th step of a job
StepName(i) == <<"s", DigitSeq[i]>>

\* a step name no job declares
NoSuchStep == <<"z","z">>

\* job.step_order of a validated configuration: distinct names, all declared
StepOrders == {[i \in 1..n |-> StepName(i)] : n \in 0..MaxSteps}

\* the --step argument
StepOnlys == {<<>>, <<StepName(1)>>, <<NoSuchStep>>}

\* profile.container
ContainerRefs == {RustDebian, <<"u",":","1">>, <<"u">>, <<"u"," ",":","1">>}

WdSrc == <<"s","r","c">>

\* step.workdir
Workdirs == {<<>>, <<WdSrc>>, <<<<"/","e">>>>, <<<<".",".","/","x">>>>, <<<<"n","o">>>>}

\* exit codes of a completed subprocess (status.code().unwrap_or(1))
ExitCodes == {0, 1, 127}

\* what the run keeps of its arguments and configuration
RunInputs ==
    [container : ContainerRefs, step_only : StepOnlys, dry_run : BOOLEAN,
     rebuild : BOOLEAN, step_order : StepOrders, ns : {"ns1"}, env_id : {"env1"}]

NoInput ==
    [container |-> <<>>, step_only |-> <<>>, dry_run |-> FALSE,
     rebuild |-> FALSE, step_order |-> <<>>, ns |-> None, env_id |-> None]

----------------------------------------------------------------------------
(* The container engine as the podman adapter sees it *)

VolKinds == <<"cargo_registry", "cargo_git", "target">>

\* format!("{ns}_{kind}")
VolName(ns, kind) == <<ns, kind>>

NoLabels ==
    [managed |-> None, namespace |-> None, env_id |-> None, volume_kind |-> None,
     doctor |-> None]

\* created is the Option the adapter parses from CreatedAt
NoVolume == [present |-> FALSE, labels |-> NoLabels, created |-> <<>>]

\* the labels run puts on a volume it creates
RunLabels(ns, env_id, kind) ==
    [managed |-> "true", namespace |-> ns, env_id |-> env_id, volume_kind |-> kind,
     doctor |-> None]

\* `podman volume exists <name>` exits 0
EngineVolumeExists(e, name) == e.volumes[name].present

\* `podman volume create --label ... <name>` exits 0 only when the name is free
EngineVolumeCreateOk(e, name) == ~e.volumes[name].present

\* the engine after a successful `podman volume create`
EngineVolumeCreate(e, name, labels) ==
    [e EXCEPT !.volumes[name] = [present |-> TRUE, labels |-> labels, created |-> <<e.now>>]]

\* the engine after `podman volume rm -f <name>`
EngineVolumeRemove(e, name) == [e EXCEPT !.volumes[name] = NoVolume]

\* `podman image exists <tag>` exits 0
EngineImageExists(e, tag) == tag \in e.images

----------------------------------------------------------------------------
(* The manifest *)

NoResult == [ok |-> TRUE, exit_code |-> 0, error |-> <<>>]

NoManifest ==
    [written |-> FALSE, run_id |-> 0, namespace |-> None, env_id |-> None,
     base_image_digest |-> <<>>, base_image_digest_status |-> None,
     steps |-> <<>>, result |-> NoResult]

\* ManifestStepV1
ManifestStepV1(name, has_duration, exit_code, stdout_path, stderr_path) ==
    [name |-> name, has_duration |-> has_duration, exit_code |-> exit_code,
     stdout_path |-> stdout_path, stderr_path |-> stderr_path]

\* digest_from_status: (digest, status)
digest_from_status(st) ==
    IF st = "Present" THEN [digest |-> <<"sha256">>, status |-> "present"]
    ELSE IF st = "Unavailable" THEN [digest |-> <<>>, status |-> "unavailable"]
    ELSE [digest |-> <<>>, status |-> "error"]

----------------------------------------------------------------------------
(* State of one invocation of `podci run` *)

IdleRun ==
    [pc |-> "start", in |-> NoInput, calls |-> <<>>,
     image |-> [kind |-> None, name |-> <<>>],
     base_digest |-> <<>>, base_digest_status |-> None,
     vk |-> 0, warned |-> {},
     steps_to_run |-> <<>>, idx |-> 0, state |-> <<>>, exec |-> <<>>,
     entered_loop |-> FALSE,
     manifest_steps |-> <<>>, final_ok |-> TRUE, final_exit |-> 0, final_err |-> <<>>,
     result |-> None, err |-> None, round |-> 1]

\* the outcome of the `podman run` of a step: not run, exited with a code, or
\* the executor returned an error
NoExec == [kind |-> "none", code |-> 0]

\* a subprocess invocation of the podman binary and how it ended
Call(op, arg, res) == [op |-> op, arg |-> arg, res |-> res]

\* run returns Err(tag) from its current position (a `?` or a bail!)
Bail(r, tag) == [r EXCEPT !.pc = "done", !.result = "err", !.err = tag]

\* where the step loop goes after the step at index i: the next step or the manifest
AfterStep(r, i) == IF i + 1 > Len(r.steps_to_run) THEN "manifest" ELSE "steps"

----------------------------------------------------------------------------
(* fn run, one action per stretch of code between two awaited subprocesses *)

\* run, lines 618-633: read and validate the configuration, look up job and profile;
\* inputs are the arguments and configurations the invocation may be given
LoadConfigFrom(p, inputs) ==
    /\ run[p].pc = "start"
    /\ \/ run' = [run EXCEPT ![p] = Bail(@, "unknown job")]
       \/ run' = [run EXCEPT ![p] = Bail(@, "unknown profile")]
       \/ \E in \in inputs :
            run' = [run EXCEPT ![p].in = in, ![p].pc = "resolve"]
    /\ UNCHANGED <<engine, fs, pr, gc, dr, pf>>

LoadConfig(p) == LoadConfigFrom(p, RunInputs)

\* run, line 635, and resolve_or_build_image up to its first subprocess (lines 861-884)
ResolveStart(p) ==
    /\ run[p].pc = "resolve"
    /\ LET kind == classify_container_ref(run[p].in.container) IN
       \/ /\ run' = [run EXCEPT ![p] = Bail(@, "podman not found")]
          /\ UNCHANGED fs
       \/ /\ kind \notin {"SymbolicTemplate", "ExplicitImageRef"}
          /\ run' = [run EXCEPT ![p] = Bail(@, kind)]
          /\ UNCHANGED fs
       \/ /\ kind = "ExplicitImageRef"
          /\ run' = [run EXCEPT ![p].pc = "inspect",
                                ![p].image = [kind |-> "explicit", name |-> run[p].in.container]]
          /\ UNCHANGED fs
       \/ /\ kind = "SymbolicTemplate"
          /\ \/ /\ run' = [run EXCEPT ![p] = Bail(@, "write Containerfile")]
                /\ UNCHANGED fs
             \/ /\ run' = [run EXCEPT ![p].pc = "image_exists",
                                      ![p].image = [kind |-> "local", name |-> run[p].in.container]]
                /\ fs' = [fs EXCEPT !.containerfiles = @ \cup {run[p].in.container}]
    /\ UNCHANGED <<engine, pr, gc, dr, pf>>

\* should_build that ignores whether the tag exists
ShouldBuild_Always(rebuild, exists) == TRUE

\* should_build that never asks for a build
ShouldBuild_Never(rebuild, exists) == FALSE

\* resolve_or_build_image, line 891: should_build
ShouldBuild(rebuild, exists) == rebuild \/ ~exists

\* resolve_or_build_image, lines 886-891: podman image exists
ImageExists(p) ==
    /\ run[p].pc = "image_exists"
    /\ LET exists == EngineImageExists(engine, run[p].image) IN
       \/ run' = [run EXCEPT ![p] =
                    Bail([@ EXCEPT !.calls = Append(@, Call("image exists", run[p].image, "io"))],
                         "podman io")]
       \/ run' = [run EXCEPT ![p].calls =
                                Append(@, Call("image exists", run[p].image,
                                               IF exists THEN "0" ELSE "1")),
                             ![p].pc = IF run[p].in.rebuild /\ exists THEN "rmi"
                                       ELSE IF ShouldBuild(run[p].in.rebuild, exists) THEN "build"
                                       ELSE "inspect"]
    /\ UNCHANGED <<engine, fs, pr, gc, dr, pf>>

\* resolve_or_build_image, line 888: podman rmi -f, its exit code is not looked at
RemoveImage(p) ==
    /\ run[p].pc = "rmi"
    /\ LET r == [run[p] EXCEPT !.calls = Append(@, Call("rmi", run[p].image, "any"))] IN
       \/ /\ run' = [run EXCEPT ![p] = Bail(r, "podman io")]
          /\ UNCHANGED engine
       \/ /\ run' = [run EXCEPT ![p] = [r EXCEPT !.pc = "build"]]
          /\ \/ engine' = [engine EXCEPT !.images = @ \ {run[p].image}]
             \/ UNCHANGED engine
    /\ UNCHANGED <<fs, pr, gc, dr, pf>>

\* BuildImage that leaves the build cache on
BuildImage_Cached(p) ==
    /\ run[p].pc = "build"
    /\ LET arg == [tag |-> run[p].image, no_cache |-> FALSE] IN
       \/ /\ \E res \in {"io", "1"} :
                run' = [run EXCEPT ![p] =
                          Bail([@ EXCEPT !.calls = Append(@, Call("build", arg, res))],
                               "build image")]
          /\ UNCHANGED engine
       \/ /\ run' = [run EXCEPT ![p].calls = Append(@, Call("build", arg, "0")),
                                ![p].pc = "inspect"]
          /\ engine' = [engine EXCEPT !.images = @ \cup {run[p].image}]
    /\ UNCHANGED <<fs, pr, gc, dr, pf>>

\* resolve_or_build_image, lines 892-897: podman build; no_cache is the rebuild flag
BuildImage(p) ==
    /\ run[p].pc = "build"
    /\ LET arg == [tag |-> run[p].image, no_cache |-> run[p].in.rebuild] IN
       \/ /\ \E res \in {"io", "1"} :
                run' = [run EXCEPT ![p] =
                          Bail([@ EXCEPT !.calls = Append(@, Call("build", arg, res))],
                               "build image")]
          /\ UNCHANGED engine
       \/ /\ run' = [run EXCEPT ![p].calls = Append(@, Call("build", arg, "0")),
                                ![p].pc = "inspect"]
          /\ engine' = [engine EXCEPT !.images = @ \cup {run[p].image}]
    /\ UNCHANGED <<fs, pr, gc, dr, pf>>

\* resolve_or_build_image, lines 863-865 and 899-901: podman image inspect
InspectDigest(p) ==
    /\ run[p].pc = "inspect"
    /\ \/ run' = [run EXCEPT ![p] =
                    Bail([@ EXCEPT !.calls = Append(@, Call("image inspect", run[p].image, "io"))],
                         "podman io")]
       \/ \E st \in {"Present", "Unavailable", "Error"} :
            run' = [run EXCEPT ![p].calls = Append(@, Call("image inspect", run[p].image, st)),
                               ![p].base_digest = digest_from_status(st).digest,
                               ![p].base_digest_status = digest_from_status(st).status,
                               ![p].pc = "vol_exists", ![p].vk = 1]
    /\ UNCHANGED <<engine, fs, pr, gc, dr, pf>>

\* the volume the setup loop of run is at
CurVol(r) == VolName(r.in.ns, VolKinds[r.vk])

\* the setup loop moves to its next volume, or run goes on to line 682
NextVol(r) ==
    IF r.vk + 1 > Len(VolKinds) THEN [r EXCEPT !.pc = "prepare"]
    ELSE [r EXCEPT !.pc = "vol_exists", !.vk = r.vk + 1]

\* run, line 660: podman volume exists
VolumeExists(p) ==
    /\ run[p].pc = "vol_exists"
    /\ LET name == CurVol(run[p])
           exists == EngineVolumeExists(engine, name)
       IN \/ run' = [run EXCEPT ![p] =
                       Bail([@ EXCEPT !.calls = Append(@, Call("volume exists", name, "io"))],
                            "podman io")]
          \/ run' = [run EXCEPT ![p].calls =
                                   Append(@, Call("volume exists", name,
                                                  IF exists THEN "0" ELSE "1")),
                                ![p].pc = IF exists THEN "vol_inspect" ELSE "vol_create"]
    /\ UNCHANGED <<engine, fs, pr, gc, dr, pf>>

\* run, lines 661-670: podman volume create with the ownership labels
VolumeCreate(p) ==
    /\ run[p].pc = "vol_create"
    /\ LET name == CurVol(run[p])
           labels == RunLabels(run[p].in.ns, run[p].in.env_id, VolKinds[run[p].vk])
           called(res) == [run[p] EXCEPT !.calls = Append(@, Call("volume create", name, res))]
       IN \/ /\ run' = [run EXCEPT ![p] = Bail(called("io"), "podman io")]
             /\ UNCHANGED engine
          \/ /\ ~EngineVolumeCreateOk(engine, name)
             /\ run' = [run EXCEPT ![p] = Bail(called("125"), "create volume")]
             /\ UNCHANGED engine
          \/ /\ EngineVolumeCreateOk(engine, name)
             /\ run' = [run EXCEPT ![p] = NextVol(called("0"))]
             /\ engine' = EngineVolumeCreate(engine, name, labels)
    /\ UNCHANGED <<fs, pr, gc, dr, pf>>

\* VolumeInspect that propagates a failed inspection
VolumeInspect_Fatal(p) ==
    /\ run[p].pc = "vol_inspect"
    /\ LET name == CurVol(run[p])
           v == engine.volumes[name]
           called(res) == [run[p] EXCEPT !.calls = Append(@, Call("volume inspect", name, res))]
       IN \/ run' = [run EXCEPT ![p] = Bail(called("err"), "inspect volume")]
          \/ /\ v.present
             /\ run' = [run EXCEPT ![p] =
                          NextVol([called("0") EXCEPT !.warned =
                                     IF v.labels.managed # "true"
                                     THEN @ \cup {VolKinds[run[p].vk]} ELSE @])]
    /\ UNCHANGED <<engine, fs, pr, gc, dr, pf>>

\* run, lines 671-679: podman volume inspect of a volume that exists; only warns
VolumeInspect(p) ==
    /\ run[p].pc = "vol_inspect"
    /\ LET name == CurVol(run[p])
           v == engine.volumes[name]
           called(res) == [run[p] EXCEPT !.calls = Append(@, Call("volume inspect", name, res))]
       IN \/ run' = [run EXCEPT ![p] = NextVol(called("err"))]
          \/ /\ v.present
             /\ run' = [run EXCEPT ![p] =
                          NextVol([called("0") EXCEPT !.warned =
                                     IF v.labels.managed # "true"
                                     THEN @ \cup {VolKinds[run[p].vk]} ELSE @])]
    /\ UNCHANGED <<engine, fs, pr, gc, dr, pf>>

----------------------------------------------------------------------------
(* fn run: the step loop and the manifest *)

\* steps_to_run, lines 700-703
StepsToRun(in) == IF IsSome(in.step_only) THEN <<in.step_only[1]>> ELSE in.step_order

\* job.steps.contains_key(s): a validated job declares exactly the steps of step_order
JobHasStep(in, s) == s \in Range(in.step_order)

\* run, lines 682-709: run id, log directory, steps to run and the unknown-step check
PrepareRun(p) ==
    /\ run[p].pc = "prepare"
    /\ LET steps == StepsToRun(run[p].in) IN
       \/ run' = [run EXCEPT ![p] = Bail(@, "create logs dir")]
       \/ /\ \E i \in 1..Len(steps) : ~JobHasStep(run[p].in, steps[i])
          /\ run' = [run EXCEPT ![p] = Bail(@, "unknown step")]
       \/ /\ \A i \in 1..Len(steps) : JobHasStep(run[p].in, steps[i])
          /\ run' = [run EXCEPT ![p].steps_to_run = steps,
                                ![p].state = [i \in 1..Len(steps) |-> "Pending"],
                                ![p].exec = [i \in 1..Len(steps) |-> NoExec],
                                ![p].idx = 1,
                                ![p].entered_loop = TRUE,
                                ![p].pc = IF steps = <<>> THEN "manifest" ELSE "steps"]
    /\ UNCHANGED <<engine, fs, pr, gc, dr, pf>>

\* a log file of a run: logs/<tag>.<ext>
LogFile(tag, ext) == [tag |-> tag, ext |-> ext]

\* async_fs::write(path, bytes): the file now holds the output of `step`
WriteLog(logs, file, step) ==
    {l \in logs : l.file # file} \cup {[file |-> file, step |-> step]}

\* StepBegin that runs the step in the container in dry-run mode too
StepBegin_NoDryRun(p) ==
    /\ run[p].pc = "steps"
    /\ LET r == run[p]
           i == r.idx
           s == r.steps_to_run[i]
       IN \E wd \in Workdirs :
            LET w == resolve_workdir(wd, fs.dirs) IN
            IF ~w.ok
            THEN run' = [run EXCEPT ![p] = Bail(r, w.err)]
            ELSE run' = [run EXCEPT ![p] =
                           [r EXCEPT !.calls = Append(@, Call("run", s, "started")),
                                     !.state[i] = "Running",
                                     !.pc = "running"]]
    /\ UNCHANGED <<engine, fs, pr, gc, dr, pf>>

\* run, lines 711-754: one iteration of the loop up to the awaited `podman run`
StepBegin(p) ==
    /\ run[p].pc = "steps"
    /\ LET r == run[p]
           i == r.idx
           s == r.steps_to_run[i]
       IN \/ /\ r.in.dry_run
             /\ run' = [run EXCEPT ![p] =
                          [r EXCEPT !.manifest_steps =
                                       Append(@, ManifestStepV1(s, FALSE, 0, <<>>, <<>>)),
                                    !.state[i] = "Skipped",
                                    !.idx = i + 1,
                                    !.pc = AfterStep(r, i)]]
          \/ /\ ~r.in.dry_run
             /\ \E wd \in Workdirs :
                  LET w == resolve_workdir(wd, fs.dirs) IN
                  IF ~w.ok
                  THEN run' = [run EXCEPT ![p] = Bail(r, w.err)]
                  ELSE run' = [run EXCEPT ![p] =
                                 [r EXCEPT !.calls = Append(@, Call("run", s, "started")),
                                           !.state[i] = "Running",
                                           !.pc = "running"]]
    /\ UNCHANGED <<engine, fs, pr, gc, dr, pf>>

\* StepSucceeded with the loop index left where it was
StepSucceeded_NoAdvance(r, i, rec) ==
    [r EXCEPT !.manifest_steps = Append(@, rec),
              !.state[i] = "Succeeded",
              !.pc = "steps"]

\* run, lines 772-781: the step exited 0; record it and go on with the next step
StepSucceeded(r, i, rec) ==
    [r EXCEPT !.manifest_steps = Append(@, rec),
              !.state[i] = "Succeeded",
              !.idx = i + 1,
              !.pc = AfterStep(r, i)]

\* FinalExit that reports 1 for every failure
FinalExit_AlwaysOne(code, cause) == 1

\* final_exit as run sets it for a failed step, lines 794 and 810
FinalExit(code, cause) == IF cause = "executor" THEN 1 ELSE code

\* StepFailed without the break: the loop goes on with the next step
StepFailed_NoBreak(r, i, rec, code, cause) ==
    [r EXCEPT !.final_ok = FALSE,
              !.final_exit = FinalExit(code, cause),
              !.final_err = <<[step |-> r.steps_to_run[i], cause |-> cause]>>,
              !.manifest_steps = Append(@, rec),
              !.state[i] = "Failed",
              !.idx = i + 1,
              !.pc = AfterStep(r, i)]

\* run, lines 782-806 and 808-822: the step failed; record it and break out of the loop
StepFailed(r, i, rec, code, cause) ==
    [r EXCEPT !.final_ok = FALSE,
              !.final_exit = FinalExit(code, cause),
              !.final_err = <<[step |-> r.steps_to_run[i], cause |-> cause]>>,
              !.manifest_steps = Append(@, rec),
              !.state[i] = "Failed",
              !.pc = "manifest"]

\* run, lines 756-823: the outcome of `podman run`, the log files, the step record
StepFinish(p) ==
    /\ run[p].pc = "running"
    /\ LET i == run[p].idx
           s == run[p].steps_to_run[i]
           tag == sanitize_for_filename(s)
           out == LogFile(tag, ".stdout")
           errf == LogFile(tag, ".stderr")
       IN \/ \* Err(e): the executor itself failed
             /\ LET r == [run[p] EXCEPT !.exec[i] = [kind |-> "error", code |-> 0]] IN
                run' = [run EXCEPT ![p] =
                          StepFailed(r, i, ManifestStepV1(s, TRUE, 1, <<>>, <<>>), 1, "executor")]
             /\ UNCHANGED fs
          \/ \* Ok(exec)
             \E code \in ExitCodes :
               LET r == [run[p] EXCEPT !.exec[i] = [kind |-> "exit", code |-> code],
                                       !.state[i] = IF code = 0 THEN "Succeeded" ELSE "Failed"]
                   rec == ManifestStepV1(s, TRUE, code, <<out>>, <<errf>>)
               IN
               \/ \* writing the stdout log fails
                  /\ run' = [run EXCEPT ![p] = Bail(r, "write log")]
                  /\ UNCHANGED fs
               \/ \* writing the stderr log fails
                  /\ run' = [run EXCEPT ![p] = Bail(r, "write log")]
                  /\ fs' = [fs EXCEPT !.logs[p] = WriteLog(@, out, s)]
               \/ /\ fs' = [fs EXCEPT !.logs[p] = WriteLog(WriteLog(@, out, s), errf, s)]
                  /\ run' = [run EXCEPT ![p] =
                               IF code = 0 THEN StepSucceeded(r, i, rec)
                               ELSE StepFailed(r, i, rec, code, "exit")]
    /\ UNCHANGED <<engine, pr, gc, dr, pf>>

\* ManifestV1 as run assembles it, lines 826-843
ManifestOf(p, r) ==
    [written |-> TRUE, run_id |-> p, namespace |-> r.in.ns, env_id |-> r.in.env_id,
     base_image_digest |-> r.base_digest, base_image_digest_status |-> r.base_digest_status,
     steps |-> r.manifest_steps,
     result |-> [ok |-> r.final_ok, exit_code |-> r.final_exit, error |-> r.final_err]]

\* write_manifest_v1: the run-scoped file first, then "latest"; either write may fail
write_manifest_v1(f, p, m, outcome) ==
    IF outcome = "fail_run" THEN f
    ELSE IF outcome = "fail_latest" THEN [f EXCEPT !.runs[p] = m]
    ELSE [f EXCEPT !.runs[p] = m, !.latest = m]

\* run, lines 826-852: assemble and write the manifest, return the result
WriteManifest(p) ==
    /\ run[p].pc = "manifest"
    /\ \E outcome \in {"ok", "fail_run", "fail_latest"} :
         /\ fs' = write_manifest_v1(fs, p, ManifestOf(p, run[p]), outcome)
         /\ run' = [run EXCEPT ![p] =
                      IF outcome # "ok" THEN Bail(@, "write manifest")
                      ELSE IF @.final_ok THEN [@ EXCEPT !.pc = "done", !.result = "ok"]
                      ELSE Bail(@, "step failed")]
    /\ UNCHANGED <<engine, pr, gc, dr, pf>>

----------------------------------------------------------------------------
(* Specification of one run against an engine in any initial state *)

\* the cache volumes of a namespace
RunVolNames(ns) == {VolName(ns, VolKinds[k]) : k \in 1..Len(VolKinds)}

\* a volume that predates label ownership
UnlabeledVolume == [present |-> TRUE, labels |-> NoLabels, created |-> <<0>>]

\* a volume an earlier run of the same namespace created
LabeledVolume(name) ==
    [present |-> TRUE, labels |-> RunLabels(name[1], "env1", name[2]), created |-> <<0>>]

InitFs ==
    [dirs |-> {WdSrc}, containerfiles |-> {},
     runs |-> [p \in Runs |-> NoManifest], latest |-> NoManifest,
     logs |-> [p \in Runs |-> {}]]

\* no prune is in progress
NoPrune ==
    [pc |-> "off", vols |-> <<>>, i |-> 0, owned |-> <<>>,
     keep |-> 0, older_than_days |-> <<>>, yes |-> FALSE, planned |-> FALSE,
     candidates |-> <<>>, to_delete |-> <<>>, j |-> 0, removed |-> {},
     result |-> None, err |-> None]

NoGc == [pc |-> "off"]

\* no library function is being called on its own
NoCall == [pc |-> "off"]

\* no doctor is in progress
NoDoctor == [pc |-> "off", vol |-> None, out |-> {}, result |-> None, err |-> None]

VolumeOfKind(name, k) ==
    IF k = "absent" THEN NoVolume
    ELSE IF k = "labeled" THEN LabeledVolume(name)
    ELSE UnlabeledVolume

\* one run against an engine in which the template image is built or not and each
\* cache volume is absent, created by an earlier run, or present without labels
Init ==
    /\ run = [p \in Runs |-> IF p = 1 THEN IdleRun ELSE [IdleRun EXCEPT !.pc = "off"]]
    /\ \E imgs \in SUBSET {[kind |-> "local", name |-> RustDebian]} :
       \E kinds \in [RunVolNames("ns1") -> {"absent", "labeled", "unlabeled"}] :
          engine = [images |-> imgs,
                    volumes |-> [n \in RunVolNames("ns1") |-> VolumeOfKind(n, kinds[n])],
                    now |-> MaxTime]
    /\ fs = InitFs
    /\ pr = NoPrune
    /\ gc = NoGc
    /\ dr = NoDoctor
    /\ pf = NoCall

Next ==
    \/ \E p \in Runs : LoadConfig(p)
    \/ \E p \in Runs : ResolveStart(p)
    \/ \E p \in Runs : ImageExists(p)
    \/ \E p \in Runs : RemoveImage(p)
    \/ \E p \in Runs : BuildImage(p)
    \/ \E p \in Runs : InspectDigest(p)
    \/ \E p \in Runs : VolumeExists(p)
    \/ \E p \in Runs : VolumeCreate(p)
    \/ \E p \in Runs : VolumeInspect(p)
    \/ \E p \in Runs : PrepareRun(p)
    \/ \E p \in Runs : StepBegin(p)
    \/ \E p \in Runs : StepFinish(p)
    \/ \E p \in Runs : WriteManifest(p)

Spec == Init /\ [][Next]_vars

----------------------------------------------------------------------------
(* Specification of two concurrent runs of the same job: they share the       *)
(* namespace and therefore the three cache volumes                            *)

RaceInputs ==
    [container : {<<"u",":","1">>}, step_only : {<<>>}, dry_run : {FALSE},
     rebuild : {FALSE}, step_order : {<<StepName(1)>>}, ns : {"ns1"}, env_id : {"env1"}]

RaceLoadConfig(p) == LoadConfigFrom(p, RaceInputs)

\* both runs start while none of the cache volumes exists
InitRace ==
    /\ run = [p \in Runs |-> IdleRun]
    /\ engine = [images |-> {},
                 volumes |-> [n \in RunVolNames("ns1") |-> NoVolume],
                 now |-> MaxTime]
    /\ fs = InitFs
    /\ pr = NoPrune
    /\ gc = NoGc
    /\ dr = NoDoctor
    /\ pf = NoCall

NextRace ==
    \/ \E p \in Runs : RaceLoadConfig(p)
    \/ \E p \in Runs : ResolveStart(p)
    \/ \E p \in Runs : InspectDigest(p)
    \/ \E p \in Runs : VolumeExists(p)
    \/ \E p \in Runs : VolumeCreate(p)
    \/ \E p \in Runs : VolumeInspect(p)
    \/ \E p \in Runs : PrepareRun(p)
    \/ \E p \in Runs : StepBegin(p)
    \/ \E p \in Runs : StepFinish(p)
    \/ \E p \in Runs : WriteManifest(p)

SpecRace == InitRace /\ [][NextRace]_vars

----------------------------------------------------------------------------
(* Specification of consecutive, non-overlapping calls of                     *)
(* resolve_or_build_image on one container reference                          *)

ResolveInputs ==
    [container : {RustDebian, <<"u",":","1">>}, step_only : {<<>>}, dry_run : {FALSE},
     rebuild : BOOLEAN, step_order : {<<>>}, ns : {"ns1"}, env_id : {"env1"}]

\* the previous call has returned (Ok at the volume setup, or Err); the same
\* reference is resolved again
ResolveAgain(p) ==
    /\ run[p].pc \in {"vol_exists", "done"}
    /\ run[p].round < MaxResolves
    /\ run' = [run EXCEPT ![p].pc = "resolve", ![p].round = @ + 1,
                          ![p].result = None, ![p].err = None]
    /\ UNCHANGED <<engine, fs, pr, gc, dr, pf>>

InitResolve ==
    /\ \E in \in ResolveInputs :
         run = [p \in Runs |-> IF p = 1 THEN [IdleRun EXCEPT !.pc = "resolve", !.in = in]
                               ELSE [IdleRun EXCEPT !.pc = "off"]]
    /\ \E imgs \in SUBSET {[kind |-> "local", name |-> RustDebian]} :
         engine = [images |-> imgs,
                   volumes |-> [n \in RunVolNames("ns1") |-> NoVolume],
                   now |-> MaxTime]
    /\ fs = InitFs
    /\ pr = NoPrune
    /\ gc = NoGc
    /\ dr = NoDoctor
    /\ pf = NoCall

NextResolve ==
    \/ \E p \in Runs : ResolveStart(p)
    \/ \E p \in Runs : ImageExists(p)
    \/ \E p \in Runs : RemoveImage(p)
    \/ \E p \in Runs : BuildImage(p)
    \/ \E p \in Runs : InspectDigest(p)
    \/ \E p \in Runs : ResolveAgain(p)

SpecResolve == InitResolve /\ [][NextResolve]_vars

----------------------------------------------------------------------------
(* crates/gc: the generic prune planner.  Times are whole days.               *)

\* Resource
Resource(name, created) == [name |-> name, created |-> created]

\* PrunePolicy; older_than_days is an Option
PrunePolicy(keep, older_than_days) == [keep |-> keep, older_than_days |-> older_than_days]

\* r goes behind every element that is at least as new: the sort is stable
RECURSIVE InsertNewestFirst(_, _)
InsertNewestFirst(sorted, r) ==
    IF sorted = <<>> THEN <<r>>
    ELSE IF sorted[1].created >= r.created
         THEN <<sorted[1]>> \o InsertNewestFirst(Tail(sorted), r)
         ELSE <<r>> \o sorted

\* the list left as it came
SortNewestFirst_Unsorted(resources) == resources

\* resources.sort_by(|a, b| b.created.cmp(&a.created)), a stable sort, newest first
RECURSIVE SortNewestFirst(_)
SortNewestFirst(resources) ==
    IF resources = <<>> THEN <<>>
    ELSE InsertNewestFirst(SortNewestFirst(SubSeq(resources, 1, Len(resources) - 1)),
                           resources[Len(resources)])

\* the candidates among sorted[idx..], in order
RECURSIVE SelectFrom(_, _, _, _)
SelectFrom(sorted, idx, policy, now) ==
    IF idx > Len(sorted) THEN <<>>
    ELSE LET r == sorted[idx]
             rest == SelectFrom(sorted, idx + 1, policy, now)
         IN IF idx - 1 < policy.keep THEN rest
            ELSE IF /\ IsSome(policy.older_than_days)
                    /\ r.created >= now - policy.older_than_days[1]
                 THEN rest
                 ELSE <<r>> \o rest

\* select_prune_candidates(resources, policy), with Utc::now() = now
select_prune_candidates(resources, policy, now) ==
    SelectFrom(SortNewestFirst(resources), 1, policy, now)

----------------------------------------------------------------------------
(* Specification of select_prune_candidates on every bounded input *)

ResourceNames == {"r1", "r2", "r3", "r4", "r5"}

\* lists of at most MaxRes resources with distinct names
ResourceLists ==
    UNION {{rs \in [1..n -> [name : ResourceNames, created : 0..MaxTime]] :
              \A i \in 1..n : rs[i].name = <<"r1", "r2", "r3", "r4", "r5">>[i]} : n \in 0..MaxRes}

Policies ==
    [keep : 0..MaxKeep, older_than_days : {<<>>} \cup {<<d>> : d \in 0..MaxAge}]

\* the permutations of a sequence
Perms(seq) ==
    {[i \in 1..Len(seq) |-> seq[f[i]]] :
        f \in {g \in [1..Len(seq) -> 1..Len(seq)] :
                 \A i \in 1..Len(seq) : \A j \in 1..Len(seq) : i # j => g[i] # g[j]}}

InitGc ==
    /\ \E base \in ResourceLists : \E rs \in Perms(base) : \E pol \in Policies :
         gc = [pc |-> "call", resources |-> rs, policy |-> pol, now |-> MaxTime, out |-> <<>>]
    /\ run = [p \in Runs |-> [IdleRun EXCEPT !.pc = "off"]]
    /\ engine = [images |-> {}, volumes |-> [n \in RunVolNames("ns1") |-> NoVolume],
                 now |-> MaxTime]
    /\ fs = InitFs
    /\ pr = NoPrune
    /\ dr = NoDoctor
    /\ pf = NoCall

\* one call of select_prune_candidates
GcSelect ==
    /\ gc.pc = "call"
    /\ gc' = [gc EXCEPT !.pc = "done",
                        !.out = select_prune_candidates(gc.resources, gc.policy, gc.now)]
    /\ UNCHANGED <<run, engine, fs, pr, dr, pf>>

NextGc == GcSelect

SpecGc == InitGc /\ [][NextGc]_vars

----------------------------------------------------------------------------
(* crates/cli: prune.  Volume names are numbers, ordered as the names are.    *)

\* the order of the namespace labels as BTreeMap keys
NsOrder == <<"n1", "n2", "ns1">>

\* the elements of a set of numbers in ascending order
RECURSIVE SortedSeq(_)
SortedSeq(S) ==
    IF S = {} THEN <<>>
    ELSE LET m == CHOOSE x \in S : \A y \in S : x <= y
         IN <<m>> \o SortedSeq(S \ {m})

\* volume_list_by_label that does not filter
volume_list_by_label_All(e, key, value) ==
    SortedSeq({n \in DOMAIN e.volumes : e.volumes[n].present})

\* Podman::volume_list_by_label: podman volume ls --filter label=<key>=<value>
volume_list_by_label(e, key, value) ==
    SortedSeq({n \in DOMAIN e.volumes :
                 e.volumes[n].present /\ e.volumes[n].labels[key] = value})

\* PodciVolumeMeta
PodciVolumeMeta(name, namespace, created_at) ==
    [name |-> name, namespace |-> namespace, created_at |-> created_at]

\* the larger of two numbers
Max(a, b) == IF a >= b THEN a ELSE b

\* plan_prune_volumes, lines 1048-1056: the newest creation time among the members
RECURSIVE NewestCreated(_)
NewestCreated(members) ==
    IF members = <<>> THEN <<>>
    ELSE LET rest == NewestCreated(Tail(members))
             m == members[1]
         IN IF ~IsSome(m.created_at) THEN rest
            ELSE IF ~IsSome(rest) THEN m.created_at
            ELSE <<Max(rest[1], m.created_at[1])>>

\* by_ns[ns] that holds only the first volume of the namespace
MembersOf_First(vols, ns) ==
    LET all == SelectSeq(vols, LAMBDA v : v.namespace = ns)
    IN IF all = <<>> THEN <<>> ELSE <<all[1]>>

\* by_ns[ns]: the volumes of a namespace, in input order
MembersOf(vols, ns) == SelectSeq(vols, LAMBDA v : v.namespace = ns)

\* plan_prune_volumes, lines 1046-1061: one Resource per namespace, in key order
Bases(vols, now) ==
    LET keys == SelectSeq(NsOrder, LAMBDA ns : MembersOf(vols, ns) # <<>>)
    IN [k \in 1..Len(keys) |->
          LET c == NewestCreated(MembersOf(vols, keys[k]))
          IN Resource(keys[k], IF IsSome(c) THEN c[1] ELSE now)]

\* plan_prune_volumes(vols, keep, older_than_days): (candidates, to_delete)
plan_prune_volumes(vols, keep, older_than_days, now) ==
    LET candidates == select_prune_candidates(Bases(vols, now),
                                              PrunePolicy(keep, older_than_days), now)
        names == {vols[i].name : i \in {k \in 1..Len(vols) :
                     \E c \in 1..Len(candidates) : candidates[c].name = vols[k].namespace}}
    IN [candidates |-> candidates, to_delete |-> SortedSeq(names)]

\* prune returns
PruneReturn(q, result, err) == [q EXCEPT !.pc = "done", !.result = result, !.err = err]

\* prune, lines 1089-1097: list the volumes labeled podci.managed=true
PruneList ==
    /\ pr.pc = "list"
    /\ \/ pr' = PruneReturn(pr, "err", "podman not found")
       \/ pr' = PruneReturn(pr, "err", "podman io")
       \/ LET vols == volume_list_by_label(engine, "managed", "true") IN
          pr' = IF vols = <<>> THEN PruneReturn(pr, "ok", None)
                ELSE [pr EXCEPT !.pc = "inspect", !.vols = vols, !.i = 1]
    /\ UNCHANGED <<run, engine, fs, gc, dr, pf>>

\* prune, line 1104: the volume carries a podci.namespace label
HasNamespace(info) == info.labels.namespace # None

\* prune, lines 1099-1113: inspect the next listed volume, keep it if it has a namespace
PruneInspect ==
    /\ pr.pc = "inspect"
    /\ LET v == pr.vols[pr.i]
           info == engine.volumes[v]
           next == IF pr.i + 1 > Len(pr.vols) THEN "plan" ELSE "inspect"
       IN \/ pr' = PruneReturn(pr, "err", "inspect volume")
          \/ /\ info.present
             /\ pr' = [pr EXCEPT !.owned =
                                    IF HasNamespace(info)
                                    THEN Append(@, PodciVolumeMeta(v, info.labels.namespace,
                                                                   info.created))
                                    ELSE @,
                                 !.i = @ + 1,
                                 !.pc = next]
    /\ UNCHANGED <<run, engine, fs, gc, dr, pf>>

\* volumes are removed without the confirmation
ShouldApply_Always(yes) == TRUE

\* prune, line 1134: the plan is applied only with --yes
ShouldApply(yes) == yes

\* prune, lines 1114-1138: plan, report, and stop unless confirmed; keep,
\* older_than_days and yes are the arguments of the invocation
PrunePlan ==
    /\ pr.pc = "plan"
    /\ \/ /\ pr.owned = <<>>
          /\ pr' = PruneReturn(pr, "ok", None)
       \/ /\ pr.owned # <<>>
          /\ \E pol \in Policies : \E yes \in BOOLEAN :
               LET plan == plan_prune_volumes(pr.owned, pol.keep, pol.older_than_days,
                                              engine.now)
                   q == [pr EXCEPT !.keep = pol.keep,
                                   !.older_than_days = pol.older_than_days,
                                   !.yes = yes, !.planned = TRUE,
                                   !.candidates = plan.candidates,
                                   !.to_delete = plan.to_delete]
               IN pr' = IF plan.to_delete = <<>> THEN PruneReturn(q, "ok", None)
                        ELSE IF ~ShouldApply(yes) THEN PruneReturn(q, "ok", None)
                        ELSE [q EXCEPT !.pc = "remove", !.j = 1]
    /\ UNCHANGED <<run, engine, fs, gc, dr, pf>>

\* prune, lines 1140-1142: podman volume rm -f of the next planned volume
PruneRemove ==
    /\ pr.pc = "remove"
    /\ LET v == pr.to_delete[pr.j] IN
       \/ /\ pr' = PruneReturn(pr, "err", "volume rm")
          /\ UNCHANGED engine
       \/ /\ engine' = EngineVolumeRemove(engine, v)
          /\ LET q == [pr EXCEPT !.removed = @ \cup {[name |-> v,
                                                     labels |-> engine.volumes[v].labels]},
                                 !.j = @ + 1]
             IN pr' = IF pr.j + 1 > Len(pr.to_delete) THEN PruneReturn(q, "ok", None)
                      ELSE q
    /\ UNCHANGED <<run, fs, gc, dr, pf>>

----------------------------------------------------------------------------
(* Specification of one prune against any engine of at most MaxVols volumes *)

PruneVolNames == 1..MaxVols

PruneLabels(managed, namespace) ==
    [managed |-> managed, namespace |-> namespace, env_id |-> "env1", volume_kind |-> "target",
     doctor |-> None]

\* a volume of the engine: absent, foreign (no managed label), managed without a
\* namespace label, or managed in a namespace with or without a creation time
PruneVolumeStates ==
    {NoVolume,
     [present |-> TRUE, labels |-> PruneLabels(None, "n1"), created |-> <<1>>],
     [present |-> TRUE, labels |-> PruneLabels("true", None), created |-> <<1>>]}
    \cup [present : {TRUE},
          labels : {PruneLabels("true", "n1"), PruneLabels("true", "n2")},
          created : {<<>>} \cup {<<t>> : t \in 1..MaxTime}]

InitPrune ==
    /\ pr = [NoPrune EXCEPT !.pc = "list"]
    /\ \E vols \in [PruneVolNames -> PruneVolumeStates] :
         engine = [images |-> {}, volumes |-> vols, now |-> MaxTime]
    /\ run = [p \in Runs |-> [IdleRun EXCEPT !.pc = "off"]]
    /\ fs = InitFs
    /\ gc = NoGc
    /\ dr = NoDoctor
    /\ pf = NoCall

NextPrune ==
    \/ PruneList
    \/ PruneInspect
    \/ PrunePlan
    \/ PruneRemove

SpecPrune == InitPrune /\ [][NextPrune]_vars

----------------------------------------------------------------------------
(* crates/cli: doctor, the environment self-check                             *)

\* format!("podci_doctor_{}", new_run_id())
DoctorVolName(run_id) == <<"podci_doctor", run_id>>

\* the labels doctor gives its probe volume: podci.managed and podci.doctor
DoctorLabels ==
    [managed |-> "true", namespace |-> None, env_id |-> None, volume_kind |-> None,
     doctor |-> "true"]

\* doctor returns
DoctorReturn(d, result, err) == [d EXCEPT !.pc = "done", !.result = result, !.err = err]

\* doctor, lines 393-446: the state and cache directories, Podman::detect,
\* podman --version (a failure is ignored) and podman info
DoctorEnv ==
    /\ dr.pc = "env"
    /\ \/ dr' = DoctorReturn(dr, "err", "create state dir")
       \/ dr' = DoctorReturn(dr, "err", "podman not found")
       \/ dr' = DoctorReturn(dr, "err", "podman info")
       \/ dr' = [dr EXCEPT !.pc = "create", !.vol = DoctorVolName("r1")]
    /\ UNCHANGED <<run, engine, fs, pr, gc, pf>>

\* doctor, lines 469-473 and 487-489: podman volume create of the probe volume;
\* a failure is reported and doctor still returns Ok
DoctorVolumeCreate ==
    /\ dr.pc = "create"
    /\ \/ /\ dr' = DoctorReturn([dr EXCEPT !.out = @ \cup {"FAIL podman volume create failed"}],
                                "ok", None)
          /\ UNCHANGED engine
       \/ /\ EngineVolumeCreateOk(engine, dr.vol)
          /\ engine' = EngineVolumeCreate(engine, dr.vol, DoctorLabels)
          /\ dr' = [dr EXCEPT !.pc = "inspect",
                              !.out = @ \cup {"OK podman volume create (labeled)"}]
    /\ UNCHANGED <<run, fs, pr, gc, pf>>

\* doctor, lines 474-483: the labels of the probe volume are read back
DoctorVolumeInspect ==
    /\ dr.pc = "inspect"
    /\ \/ dr' = [dr EXCEPT !.pc = "remove",
                           !.out = @ \cup {"WARN podman volume inspect failed"}]
       \/ /\ engine.volumes[dr.vol].present
          /\ dr' = [dr EXCEPT !.pc = "remove",
                              !.out = @ \cup {IF engine.volumes[dr.vol].labels.managed = "true"
                                              THEN "OK podman volume labels readable"
                                              ELSE "WARN podman volume labels missing/unreadable"}]
    /\ UNCHANGED <<run, engine, fs, pr, gc, pf>>

\* doctor, lines 484-485: podman volume rm -f; the result is discarded
DoctorVolumeRemove ==
    /\ dr.pc = "remove"
    /\ \/ UNCHANGED engine
       \/ engine' = EngineVolumeRemove(engine, dr.vol)
    /\ dr' = DoctorReturn([dr EXCEPT !.out = @ \cup {"OK podman volume remove"}], "ok", None)
    /\ UNCHANGED <<run, fs, pr, gc, pf>>

----------------------------------------------------------------------------
(* Specification of the operations that create volumes: one run and one       *)
(* doctor against the same engine                                             *)

\* the cache volumes of the run exist already or not; the probe volume is new
InitDoctor ==
    /\ run = [p \in Runs |-> IF p = 1 THEN IdleRun ELSE [IdleRun EXCEPT !.pc = "off"]]
    /\ \E kinds \in [RunVolNames("ns1") -> {"absent", "labeled"}] :
         engine = [images |-> {},
                   volumes |-> [n \in RunVolNames("ns1") \cup {DoctorVolName("r1")} |->
                                  IF n \in RunVolNames("ns1")
                                  THEN VolumeOfKind(n, kinds[n]) ELSE NoVolume],
                   now |-> MaxTime]
    /\ fs = InitFs
    /\ pr = NoPrune
    /\ gc = NoGc
    /\ dr = [NoDoctor EXCEPT !.pc = "env"]
    /\ pf = NoCall

NextDoctor ==
    \/ \E p \in Runs : RaceLoadConfig(p)
    \/ \E p \in Runs : ResolveStart(p)
    \/ \E p \in Runs : InspectDigest(p)
    \/ \E p \in Runs : VolumeExists(p)
    \/ \E p \in Runs : VolumeCreate(p)
    \/ \E p \in Runs : VolumeInspect(p)
    \/ \E p \in Runs : PrepareRun(p)
    \/ \E p \in Runs : StepBegin(p)
    \/ \E p \in Runs : StepFinish(p)
    \/ \E p \in Runs : WriteManifest(p)
    \/ DoctorEnv
    \/ DoctorVolumeCreate
    \/ DoctorVolumeInspect
    \/ DoctorVolumeRemove

SpecDoctor == InitDoctor /\ [][NextDoctor]_vars

----------------------------------------------------------------------------
(* crates/config and crates/namespace: the configuration and its fingerprint  *)

\* the order of the map keys as strings
KeyOrder == <<"A", "B", "default", "dev", "s1", "s2">>

KeyRank(k) == CHOOSE i \in 1..Len(KeyOrder) : KeyOrder[i] = k

\* a map that keeps its entries in insertion order
BTreeInsert_InsertionOrder(m, k, v) ==
    SelectSeq(m, LAMBDA e : e.k # k) \o <<[k |-> k, v |-> v]>>

\* BTreeMap::insert: the entries stay sorted by key, an equal key is replaced
BTreeInsert(m, k, v) ==
    SelectSeq(m, LAMBDA e : KeyRank(e.k) < KeyRank(k))
       \o <<[k |-> k, v |-> v]>>
       \o SelectSeq(m, LAMBDA e : KeyRank(e.k) > KeyRank(k))

\* the map after a sequence of insertions
RECURSIVE BTreeFrom(_)
BTreeFrom(ins) ==
    IF ins = <<>> THEN <<>>
    ELSE LET n == Len(ins)
         IN BTreeInsert(BTreeFrom(SubSeq(ins, 1, n - 1)), ins[n].k, ins[n].v)

\* BTreeMap::get, an Option
BTreeGet(m, k) ==
    LET hit == SelectSeq(m, LAMBDA e : e.k = k)
    IN IF hit = <<>> THEN <<>> ELSE <<hit[1].v>>

\* Step, Job, Profile and Config of crates/config
Step(argv, workdir, env) == [run |-> argv, workdir |-> workdir, env |-> env]

Job(profile, step_order, steps) ==
    [profile |-> profile, step_order |-> step_order, steps |-> steps]

Profile(container, env) == [container |-> container, env |-> env]

Config(version, project, profiles, jobs) ==
    [version |-> version, project |-> project, profiles |-> profiles, jobs |-> jobs]

\* serde_json: a string, a list, and the members of an object or list
JsonString(str) == <<"\"", str, "\"">>

\* a small unsigned number
JsonNumber(n) == <<<<"0", "1", "2">>[n + 1]>>

RECURSIVE JsonJoin(_)
JsonJoin(parts) ==
    IF parts = <<>> THEN <<>>
    ELSE IF Len(parts) = 1 THEN parts[1]
    ELSE parts[1] \o <<",">> \o JsonJoin(Tail(parts))

JsonStrings(strs) ==
    <<"[">> \o JsonJoin([i \in 1..Len(strs) |-> JsonString(strs[i])]) \o <<"]">>

JsonField(name, value) == JsonString(name) \o <<":">> \o value

\* a BTreeMap<String, String> is written in iteration order
JsonStringMap(m) ==
    <<"{">> \o JsonJoin([i \in 1..Len(m) |-> JsonField(m[i].k, JsonString(m[i].v))])
            \o <<"}">>

\* compute_env_id, lines 564-569: StepFp as serde_json writes it
JsonStepFp(st) ==
    <<"{">> \o JsonJoin(<<JsonField("run", JsonStrings(st.run)),
                          JsonField("workdir", IF IsSome(st.workdir)
                                               THEN JsonString(st.workdir[1])
                                               ELSE <<"null">>),
                          JsonField("env", JsonStringMap(st.env))>>)
            \o <<"}">>

\* compute_env_id, lines 571-581: Fingerprint as serde_json writes it
JsonFingerprint(fp) ==
    <<"{">> \o JsonJoin(<<JsonField("version", JsonNumber(fp.version)),
                          JsonField("project", JsonString(fp.project)),
                          JsonField("job", JsonString(fp.job)),
                          JsonField("profile", JsonString(fp.profile)),
                          JsonField("container", JsonString(fp.container)),
                          JsonField("profile_env", JsonStringMap(fp.profile_env)),
                          JsonField("step_order", JsonStrings(fp.step_order)),
                          JsonField("steps",
                             <<"{">> \o JsonJoin([i \in 1..Len(fp.steps) |->
                                           JsonField(fp.steps[i].k, JsonStepFp(fp.steps[i].v))])
                                     \o <<"}">>)>>)
            \o <<"}">>

\* the pieces a serialized fingerprint is made of
JsonAlphabet ==
    <<"{", "}", "[", "]", ":", ",", "\"", "null", "version", "project", "job", "profile",
      "container", "profile_env", "step_order", "steps", "run", "workdir", "env",
      "0", "1", "2", "A", "B", "a", "b", "w", "x", "default", "dev", "s1", "s2",
      "rust-debian", "rust-alpine">>

JsonCode(piece) == CHOOSE i \in 1..Len(JsonAlphabet) : JsonAlphabet[i] = piece

\* 31^n modulo 2^15
RECURSIVE Pow31(_)
Pow31(n) ==
    IF n = 0 THEN 1
    ELSE LET half == Pow31(n \div 2)
         IN IF n % 2 = 0 THEN (half * half) % 32768
            ELSE (((half * half) % 32768) * 31) % 32768

\* the hasher: a digest of 15 bits, h <- h * 31 + byte for every byte in turn,
\* computed by halves
RECURSIVE Hasher(_)
Hasher(bytes) ==
    IF bytes = <<>> THEN 0
    ELSE IF Len(bytes) = 1 THEN JsonCode(bytes[1])
    ELSE LET n == Len(bytes)
             m == n \div 2
         IN (Hasher(SubSeq(bytes, 1, m)) * Pow31(n - m) + Hasher(SubSeq(bytes, m + 1, n)))
               % 32768

\* blake3_fingerprint: the digest of the serde_json bytes of the value
blake3_fingerprint(fp) == Hasher(JsonFingerprint(fp))

\* compute_env_id(cfg, job_name, profile_name)
compute_env_id(cfg, job_name, profile_name) ==
    LET job == BTreeGet(cfg.jobs, job_name)
        profile == BTreeGet(cfg.profiles, profile_name)
    IN IF ~IsSome(job) THEN [ok |-> FALSE, id |-> 0, err |-> "unknown job"]
       ELSE IF ~IsSome(profile) THEN [ok |-> FALSE, id |-> 0, err |-> "unknown profile"]
       ELSE LET steps_map ==
                    BTreeFrom([i \in 1..Len(job[1].steps) |->
                                 [k |-> job[1].steps[i].k,
                                  v |-> Step(job[1].steps[i].v.run, job[1].steps[i].v.workdir,
                                             job[1].steps[i].v.env)]])
                fp == [version |-> cfg.version, project |-> cfg.project, job |-> job_name,
                       profile |-> profile_name, container |-> profile[1].container,
                       profile_env |-> profile[1].env, step_order |-> job[1].step_order,
                       steps |-> steps_map]
            IN [ok |-> TRUE, id |-> blake3_fingerprint(fp), err |-> None]

----------------------------------------------------------------------------
(* Specification of compute_env_id on two configurations, each built by its   *)
(* own sequence of map insertions                                             *)

\* the insertions into the environment of the profile
EnvInserts ==
    UNION {[1..n -> [k : {"A", "B"}, v : {"1", "2"}]] : n \in 0..MaxInserts}

\* how a configuration is built: the insertions into the profile environment,
\* which step is inserted first, in which order the environment of step s1 is
\* filled, the argv of step s1 and the container of the profile
ConfigRecipes(envs, argvs, containers) ==
    [env : envs, s2_first : BOOLEAN, b_first : BOOLEAN,
     argv : argvs, container : containers]

\* the configuration a recipe builds
ConfigOf(rc) ==
    LET a == [k |-> "A", v |-> "1"]
        b == [k |-> "B", v |-> "2"]
        s1 == [k |-> "s1",
               v |-> Step(rc.argv, <<>>, BTreeFrom(IF rc.b_first THEN <<b, a>> ELSE <<a, b>>))]
        s2 == [k |-> "s2", v |-> Step(<<"b">>, <<"w">>, <<>>)]
        job == Job("dev", <<"s1", "s2">>,
                   BTreeFrom(IF rc.s2_first THEN <<s2, s1>> ELSE <<s1, s2>>))
    IN Config(1, "x",
              BTreeFrom(<<[k |-> "dev", v |-> Profile(rc.container, BTreeFrom(rc.env))]>>),
              BTreeFrom(<<[k |-> "default", v |-> job]>>))

\* the second configuration gets the insertions of the first in any order
InitEnvId ==
    /\ \E r1 \in ConfigRecipes(EnvInserts, {<<"a">>}, {"rust-debian"}) :
       \E r2 \in ConfigRecipes(Perms(r1.env), {<<"a">>, <<"a", "b">>},
                               {"rust-debian", "rust-alpine"}) :
       \E job \in {"default", "dev"} :
          pf = [pc |-> "call", recipe |-> <<r1, r2>>, job |-> job, profile |-> "dev",
                out |-> <<>>, again |-> <<>>]
    /\ run = [p \in Runs |-> [IdleRun EXCEPT !.pc = "off"]]
    /\ engine = [images |-> {}, volumes |-> [n \in RunVolNames("ns1") |-> NoVolume],
                 now |-> MaxTime]
    /\ fs = InitFs
    /\ pr = NoPrune
    /\ gc = NoGc
    /\ dr = NoDoctor

\* compute_env_id on both configurations, and once more on the first
EnvIdCall ==
    /\ pf.pc = "call"
    /\ pf' = [pf EXCEPT !.pc = "done",
                        !.out = [i \in 1..2 |->
                                   compute_env_id(ConfigOf(pf.recipe[i]), pf.job, pf.profile)],
                        !.again = compute_env_id(ConfigOf(pf.recipe[1]), pf.job, pf.profile)]
    /\ UNCHANGED <<run, engine, fs, pr, gc, dr>>

NextEnvId == EnvIdCall

SpecEnvId == InitEnvId /\ [][NextEnvId]_vars

----------------------------------------------------------------------------
(* crates/namespace: namespace_from.  Strings are character sequences.        *)

UpperSeq == <<"A","B","C","D","E","F","G","H","I","J","K","L","M",
              "N","O","P","Q","R","S","T","U","V","W","X","Y","Z">>
LowerSeq == <<"a","b","c","d","e","f","g","h","i","j","k","l","m",
              "n","o","p","q","r","s","t","u","v","w","x","y","z">>

\* char::to_ascii_lowercase
to_ascii_lowercase(c) ==
    IF c \in Upper THEN LowerSeq[CHOOSE i \in 1..Len(UpperSeq) : UpperSeq[i] = c] ELSE c

\* safe that keeps the case of a letter
safe_KeepCase(str) ==
    [i \in 1..Len(str) |->
       IF is_ascii_alphanumeric(str[i]) \/ str[i] \in {"_", "-", "."} THEN str[i] ELSE "_"]

\* namespace_from, lines 21-31: fn safe
safe(str) ==
    [i \in 1..Len(str) |->
       IF is_ascii_alphanumeric(str[i]) \/ str[i] \in {"_", "-", "."}
       THEN to_ascii_lowercase(str[i]) ELSE "_"]

\* the length of the fingerprint prefix in a namespace
EnvIdPrefixLen == 12

\* 12.min(env_id.len())
Min(a, b) == IF a <= b THEN a ELSE b

\* namespace_from(project, job, env_id)
namespace_from(project, job, env_id) ==
    <<"p","o","d","c","i","_">> \o safe(project) \o <<"_">> \o safe(job) \o <<"_">>
        \o SubSeq(env_id, 1, Min(EnvIdPrefixLen, Len(env_id)))

----------------------------------------------------------------------------
(* Specification of namespace_from on any project and job name and a hex      *)
(* digest of any length                                                       *)

\* characters of a name: letters of both cases, a digit, the three characters
\* that are kept, and characters that are folded (the last one is not ASCII)
NameChars == {"a", "B", "7", "_", "-", ".", " ", "/", "é"}

NamesUpTo(n) == UNION {[1..k -> NameChars] : k \in 0..n}

HexDigest == <<"0","1","2","3","4","5","6","7","8","9","a","b","c","d","e","f">>

\* fingerprints shorter than, as long as and longer than the prefix
EnvIds == {SubSeq(HexDigest, 1, n) : n \in {0, 5, EnvIdPrefixLen, 16}}
             \cup {SubSeq(HexDigest, 3, 16)}

InitNamespace ==
    /\ \E project \in NamesUpTo(MaxName) : \E job \in NamesUpTo(1) : \E env_id \in EnvIds :
         pf = [pc |-> "call", project |-> project, job |-> job, env_id |-> env_id,
               out |-> <<>>]
    /\ run = [p \in Runs |-> [IdleRun EXCEPT !.pc = "off"]]
    /\ engine = [images |-> {}, volumes |-> [n \in RunVolNames("ns1") |-> NoVolume],
                 now |-> MaxTime]
    /\ fs = InitFs
    /\ pr = NoPrune
    /\ gc = NoGc
    /\ dr = NoDoctor

NamespaceCall ==
    /\ pf.pc = "call"
    /\ pf' = [pf EXCEPT !.pc = "done", !.out = namespace_from(pf.project, pf.job, pf.env_id)]
    /\ UNCHANGED <<run, engine, fs, pr, gc, dr>>

NextNamespace == NamespaceCall

SpecNamespace == InitNamespace /\ [][NextNamespace]_vars

----------------------------------------------------------------------------
(* Specification of classify_container_ref on the catalog names and on any    *)
(* short reference                                                            *)

\* characters of a reference: alphanumerics, the three qualifiers, a dot, and
\* characters that are not allowed (whitespace, punctuation, not ASCII)
RefChars == {"u", "U", "1", "/", ":", "@", ".", " ", "!", "é"}

RefsUpTo(n) == UNION {[1..k -> RefChars] : k \in 0..n}

InitClassify ==
    /\ \E container \in RefsUpTo(MaxRef)
                          \cup {RustAlpine, RustDebian, CppDebian, KdeMixedDebian} :
         pf = [pc |-> "call", container |-> container, out |-> None]
    /\ run = [p \in Runs |-> [IdleRun EXCEPT !.pc = "off"]]
    /\ engine = [images |-> {}, volumes |-> [n \in RunVolNames("ns1") |-> NoVolume],
                 now |-> MaxTime]
    /\ fs = InitFs
    /\ pr = NoPrune
    /\ gc = NoGc
    /\ dr = NoDoctor

ClassifyCall ==
    /\ pf.pc = "call"
    /\ pf' = [pf EXCEPT !.pc = "done", !.out = classify_container_ref(pf.container)]
    /\ UNCHANGED <<run, engine, fs, pr, gc, dr>>

NextClassify == ClassifyCall

SpecClassify == InitClassify /\ [][NextClassify]_vars

----------------------------------------------------------------------------
(* crates/podman: failure classification; crates/cli: operator hints.  A hint *)
(* is the sequence of its words.                                              *)

PermissionDeniedMarker == <<"p","e","r","m","i","s","s","i","o","n"," ","d","e","n","i","e","d">>
CreatingStorageMarker == <<"c","r","e","a","t","i","n","g"," ","c","o","n","t","a","i","n","e","r"," ","s","t","o","r","a","g","e">>
ContainersStorageMarker == <<"c","o","n","t","a","i","n","e","r","s","/","s","t","o","r","a","g","e">>
NotFoundMarker == <<"n","o","t"," ","f","o","u","n","d">>

\* str::to_lowercase on ASCII text
to_lowercase(str) == [i \in 1..Len(str) |-> to_ascii_lowercase(str[i])]

\* classify_failure that takes any mention of storage for a storage failure
classify_failure_AnyStorage(exit_code, stderr) ==
    LET s == to_lowercase(stderr)
    IN IF Contains(s, PermissionDeniedMarker) THEN "PermissionDenied"
       ELSE IF Contains(s, <<"s","t","o","r","a","g","e">>) THEN "StorageError"
       ELSE IF exit_code = 127 \/ Contains(s, NotFoundMarker) THEN "NotInstalled"
       ELSE "CommandFailed"

\* classify_failure that looks at the exit code and "not found" first
classify_failure_ExitFirst(exit_code, stderr) ==
    LET s == to_lowercase(stderr)
    IN IF exit_code = 127 \/ Contains(s, NotFoundMarker) THEN "NotInstalled"
       ELSE IF Contains(s, PermissionDeniedMarker) THEN "PermissionDenied"
       ELSE IF Contains(s, CreatingStorageMarker) \/ Contains(s, ContainersStorageMarker)
            THEN "StorageError"
       ELSE "CommandFailed"

\* classify_failure(exit_code, stderr): the first match wins
classify_failure(exit_code, stderr) ==
    LET s == to_lowercase(stderr)
    IN IF Contains(s, PermissionDeniedMarker) THEN "PermissionDenied"
       ELSE IF Contains(s, CreatingStorageMarker) \/ Contains(s, ContainersStorageMarker)
            THEN "StorageError"
       ELSE IF exit_code = 127 \/ Contains(s, NotFoundMarker) THEN "NotInstalled"
       ELSE "CommandFailed"

\* PodmanErrorKind
PodmanErrorKind ==
    {"NotInstalled", "PermissionDenied", "StorageError", "CommandFailed", "Unknown"}

\* PodmanRunError as finish_capture builds it; any other error of a chain has
\* the type "other"
PodmanRunError(kind, status, stderr) ==
    [type |-> "PodmanRunError", kind |-> kind, status |-> status, stderr_trunc |-> stderr]

OtherError == [type |-> "other", kind |-> None, status |-> 0, stderr_trunc |-> <<>>]

\* the texts of hints_for_podman_kind, without the backquotes around commands
HintNotInstalled ==
    <<"podman", "is", "not", "installed", "or", "not", "on", "PATH.", "Install", "Podman",
      "and", "ensure", "podman", "is", "available", "in", "your", "shell", "PATH.">>

HintPermissionDenied ==
    <<"podman", "returned", "a", "permission", "error.", "Verify", "rootless", "Podman",
      "is", "working", "for", "your", "user", "(try", "podman", "info).", "If",
      "SELinux", "is", "enforcing,", "ensure", "volume", "mounts", "use", "proper",
      "labels", "(e.g.,", ":Z)", "and", "that", "your", "storage", "directory", "is",
      "writable.">>

HintStorageError ==
    <<"podman", "storage", "appears", "unhealthy.", "Common", "fixes:", "(1)", "ensure",
      "you", "have", "free", "disk", "space/inodes,", "(2)", "run", "podman", "system",
      "check,", "(3)", "if", "storage", "is", "corrupt,", "consider", "podman", "system",
      "reset", "(destructive).", "If", "podCI", "printed", "stderr/stdout", "file",
      "paths,", "review", "those", "logs", "for", "the", "exact", "storage", "error.">>

HintCommandFailed ==
    <<"the", "container", "step", "failed.", "Review", "the", "step", "stderr/stdout",
      "(podCI", "prints", "log", "paths", "when", "available)", "and", "re-run", "with",
      "RUST_LOG=info", "for", "more", "context.", "If", "the", "failure", "is",
      "deterministic,", "it", "should", "reproduce", "locally", "with", "the", "same",
      "podCI", "profile/job.">>

HintUnknown ==
    <<"podman", "failed", "for", "an", "unknown", "reason.", "Re-run", "with",
      "RUST_LOG=info", "and", "inspect", "the", "stderr/stdout", "logs", "if", "paths",
      "are", "shown.", "If", "this", "persists,", "capture", "podman", "info", "--debug",
      "output.">>

\* hints_for_podman_kind(kind)
hints_for_podman_kind(kind) ==
    IF kind = "NotInstalled" THEN HintNotInstalled
    ELSE IF kind = "PermissionDenied" THEN HintPermissionDenied
    ELSE IF kind = "StorageError" THEN HintStorageError
    ELSE IF kind = "CommandFailed" THEN HintCommandFailed
    ELSE HintUnknown

\* operator_hints_for_error that looks at the outermost error only
operator_hints_for_error_TopOnly(chain) ==
    IF chain # <<>> /\ chain[1].type = "PodmanRunError"
    THEN <<hints_for_podman_kind(chain[1].kind)>> ELSE <<>>

\* operator_hints_for_error(err): the hint for the first PodmanRunError of the
\* chain, an Option
operator_hints_for_error(chain) ==
    LET hits == SelectSeq(chain, LAMBDA cause : cause.type = "PodmanRunError")
    IN IF hits = <<>> THEN <<>> ELSE <<hints_for_podman_kind(hits[1].kind)>>

----------------------------------------------------------------------------
(* Specification of a captured podman invocation that exits with any status   *)
(* and any short stderr                                                       *)

\* messages of the engine; stderr is a sequence of them, one per line
StderrMsgs ==
    {<<"P","e","r","m","i","s","s","i","o","n"," ","d","e","n","i","e","d">>,
     <<"E","r","r","o","r",":"," ","C","r","e","a","t","i","n","g"," ","C","o","n","t","a","i","n","e","r"," ","S","t","o","r","a","g","e">>,
     <<"c","o","n","t","a","i","n","e","r","s","/","s","t","o","r","a","g","e">>,
     <<"n","o","t"," ","f","o","u","n","d">>,
     <<"s","t","o","r","a","g","e"," ","e","r","r","o","r">>,
     <<"b","o","o","m">>}

RECURSIVE Lines(_)
Lines(msgs) ==
    IF msgs = <<>> THEN <<>> ELSE msgs[1] \o <<"\n">> \o Lines(Tail(msgs))

Stderrs == {Lines(msgs) : msgs \in UNION {[1..n -> StderrMsgs] : n \in 0..MaxMsgs}}

\* out.status.code() of the finished process
ExitStatuses == {0, 1, 125, 127}

InitFailure ==
    /\ \E exit_code \in ExitStatuses : \E stderr \in Stderrs :
         pf = [pc |-> "call", exit_code |-> exit_code, stderr |-> stderr,
               err |-> <<>>, hint |-> <<>>]
    /\ run = [p \in Runs |-> [IdleRun EXCEPT !.pc = "off"]]
    /\ engine = [images |-> {}, volumes |-> [n \in RunVolNames("ns1") |-> NoVolume],
                 now |-> MaxTime]
    /\ fs = InitFs
    /\ pr = NoPrune
    /\ gc = NoGc
    /\ dr = NoDoctor

\* Podman::finish_capture: a non-zero exit becomes a PodmanRunError; the hint is
\* the one operator_hints_for_error finds for that error
FinishCapture ==
    /\ pf.pc = "call"
    /\ LET err == IF pf.exit_code # 0
                  THEN <<PodmanRunError(classify_failure(pf.exit_code, pf.stderr),
                                        pf.exit_code, pf.stderr)>>
                  ELSE <<>>
       IN pf' = [pf EXCEPT !.pc = "done", !.err = err, !.hint = operator_hints_for_error(err)]
    /\ UNCHANGED <<run, engine, fs, pr, gc, dr>>

NextFailure == FinishCapture

SpecFailure == InitFailure /\ [][NextFailure]_vars

----------------------------------------------------------------------------
(* Specification of the two capture modes of crates/podman on a completed      *)
(* subprocess: std::process::Output is the status and the two streams          *)

\* out.status.code(): Some(code), or None for a process ended by a signal
OutputStatuses == {<<c>> : c \in ExitStatuses} \cup {<<>>}

\* what the process wrote to stdout
Stdouts == {<<>>, <<"o","k","\n">>}

\* out.status.code().unwrap_or(1)
unwrap_or(opt, default) == IF opt = <<>> THEN default ELSE opt[1]

\* ExecResult, without the duration
ExecResult(exit_code, stdout, stderr) ==
    [exit_code |-> exit_code, stdout |-> stdout, stderr |-> stderr]

\* Podman::finish_capture(out): Ok(ExecResult) for a successful status, else
\* Err(PodmanRunError)
finish_capture(out) ==
    LET exit_code == unwrap_or(out.status, 1)
    IN IF out.status # <<0>>
       THEN [ok |-> FALSE, result |-> <<>>,
             err |-> <<PodmanRunError(classify_failure(exit_code, out.stderr),
                                      exit_code, out.stderr)>>]
       ELSE [ok |-> TRUE, result |-> <<ExecResult(exit_code, out.stdout, out.stderr)>>,
             err |-> <<>>]

\* finish_capture_allow_failure that raises on a failed status, as finish_capture
finish_capture_allow_failure_Raise(out) == finish_capture(out)

\* Podman::finish_capture_allow_failure(out): always Ok(ExecResult)
finish_capture_allow_failure(out) ==
    LET exit_code == unwrap_or(out.status, 1)
    IN [ok |-> TRUE, result |-> <<ExecResult(exit_code, out.stdout, out.stderr)>>,
        err |-> <<>>]

InitCapture ==
    /\ \E status \in OutputStatuses : \E stdout \in Stdouts : \E stderr \in Stderrs :
         pf = [pc |-> "output", out |-> [status |-> status, stdout |-> stdout, stderr |-> stderr],
               mode |-> "none", ok |-> FALSE, result |-> <<>>, err |-> <<>>]
    /\ run = [p \in Runs |-> [IdleRun EXCEPT !.pc = "off"]]
    /\ engine = [images |-> {}, volumes |-> [n \in RunVolNames("ns1") |-> NoVolume],
                 now |-> MaxTime]
    /\ fs = InitFs
    /\ pr = NoPrune
    /\ gc = NoGc
    /\ dr = NoDoctor

\* run_capture and its siblings hand the Output to finish_capture
CapturePlain ==
    /\ pf.pc = "output"
    /\ LET r == finish_capture(pf.out)
       IN pf' = [pf EXCEPT !.pc = "done", !.mode = "plain", !.ok = r.ok,
                           !.result = r.result, !.err = r.err]
    /\ UNCHANGED <<run, engine, fs, pr, gc, dr>>

\* the allow-failure callers hand the Output to finish_capture_allow_failure
CaptureAllowFailure ==
    /\ pf.pc = "output"
    /\ LET r == finish_capture_allow_failure(pf.out)
       IN pf' = [pf EXCEPT !.pc = "done", !.mode = "allow", !.ok = r.ok,
                           !.result = r.result, !.err = r.err]
    /\ UNCHANGED <<run, engine, fs, pr, gc, dr>>

NextCapture == CapturePlain \/ CaptureAllowFailure

SpecCapture == InitCapture /\ [][NextCapture]_vars

----------------------------------------------------------------------------
(* The `podman run` invocation of a step.  An argument is the sequence of the  *)
(* pieces format! joins; an argument passed on as it is has one piece.         *)

\* merge_env with the step entries put first
merge_env_StepFirst(profile_env, step_env) == step_env \o profile_env

\* env_kv of run, lines 733-740: the profile entries, then the step entries
merge_env(profile_env, step_env) == profile_env \o step_env

\* build_podman_run_args that puts the environment entries after the image
build_podman_run_args_EnvLast(input) ==
    <<<<"run">>, <<"--rm">>, <<"--userns=keep-id">>,
      <<"-v">>, input.volumes.cargo_registry \o <<":", "/usr/local/cargo/registry", ":Z">>,
      <<"-v">>, input.volumes.cargo_git \o <<":", "/usr/local/cargo/git", ":Z">>,
      <<"-v">>, input.volumes.target \o <<":", "/work/target", ":Z">>,
      <<"-v">>, <<input.repo_root, ":", "/work", ":Z">>,
      <<"-w">>, input.workdir_display,
      <<"--env">>, <<"CARGO_HOME", "=", "/usr/local/cargo">>>>
    \o <<<<input.image>>>>
    \o [i \in 1..(2 * Len(input.env_kv)) |->
          IF i % 2 = 1 THEN <<"--env">>
          ELSE <<input.env_kv[i \div 2].k, "=", input.env_kv[i \div 2].v>>]
    \o [i \in 1..Len(input.argv) |-> <<input.argv[i]>>]

\* build_podman_run_args(input)
build_podman_run_args(input) ==
    <<<<"run">>, <<"--rm">>, <<"--userns=keep-id">>,
      <<"-v">>, input.volumes.cargo_registry \o <<":", "/usr/local/cargo/registry", ":Z">>,
      <<"-v">>, input.volumes.cargo_git \o <<":", "/usr/local/cargo/git", ":Z">>,
      <<"-v">>, input.volumes.target \o <<":", "/work/target", ":Z">>,
      <<"-v">>, <<input.repo_root, ":", "/work", ":Z">>,
      <<"-w">>, input.workdir_display,
      <<"--env">>, <<"CARGO_HOME", "=", "/usr/local/cargo">>>>
    \o [i \in 1..(2 * Len(input.env_kv)) |->
          IF i % 2 = 1 THEN <<"--env">>
          ELSE <<input.env_kv[i \div 2].k, "=", input.env_kv[i \div 2].v>>]
    \o <<<<input.image>>>>
    \o [i \in 1..Len(input.argv) |-> <<input.argv[i]>>]

\* PodmanCacheVolumes of a namespace, run lines 642-650
PodmanCacheVolumes(ns) ==
    [cargo_registry |-> VolName(ns, "cargo_registry"),
     cargo_git |-> VolName(ns, "cargo_git"),
     target |-> VolName(ns, "target")]

\* step.run of a validated job: never empty; one argv repeats option names of podman
Argvs == {<<"make">>, <<"cargo", "test">>, <<"sh", "--env", "-v">>}

\* the image resolve_or_build_image returned
ImageNames == {"localhost/podci-rust-debian:v1", "u:1"}

\* the environments of profile and step, the argv and workdir of the step
InitRunArgs ==
    /\ \E pins \in EnvInserts : \E sins \in EnvInserts :
       \E argv \in Argvs : \E image \in ImageNames : \E wd \in {<<>>, <<WdSrc>>} :
         pf = [pc |-> "step", profile_env |-> BTreeFrom(pins), step_env |-> BTreeFrom(sins),
               argv |-> argv, image |-> image, workdir |-> wd, args |-> <<>>]
    /\ run = [p \in Runs |-> [IdleRun EXCEPT !.pc = "off"]]
    /\ engine = [images |-> {}, volumes |-> [n \in RunVolNames("ns1") |-> NoVolume],
                 now |-> MaxTime]
    /\ fs = InitFs
    /\ pr = NoPrune
    /\ gc = NoGc
    /\ dr = NoDoctor

\* run, lines 729-749: the arguments of the `podman run` of one step
StepArgs ==
    /\ pf.pc = "step"
    /\ pf' = [pf EXCEPT !.pc = "done",
                        !.args = build_podman_run_args(
                                   [repo_root |-> "/repo",
                                    workdir_display |-> resolve_workdir(pf.workdir, fs.dirs).display,
                                    volumes |-> PodmanCacheVolumes("ns1"),
                                    image |-> pf.image,
                                    env_kv |-> merge_env(pf.profile_env, pf.step_env),
                                    argv |-> pf.argv])]
    /\ UNCHANGED <<run, engine, fs, pr, gc, dr>>

NextRunArgs == StepArgs

SpecRunArgs == InitRunArgs /\ [][NextRunArgs]_vars

----------------------------------------------------------------------------
(* Specification of the manifest writes of two runs that end at the same time: *)
(* write_manifest_v1 awaits two file writes, and the writes of the two          *)
(* processes interleave                                                         *)

\* how the step loop of a run ended: final_ok, final_exit and the step records
LoopEnds ==
    {[ok |-> TRUE, exit |-> 0, steps |-> <<>>],
     [ok |-> TRUE, exit |-> 0,
      steps |-> <<ManifestStepV1(StepName(1), FALSE, 0, <<>>, <<>>)>>],
     [ok |-> FALSE, exit |-> 1,
      steps |-> <<ManifestStepV1(StepName(1), TRUE, 1, <<>>, <<>>)>>],
     [ok |-> FALSE, exit |-> 127,
      steps |-> <<ManifestStepV1(StepName(1), TRUE, 127, <<>>, <<>>)>>]}

\* a run that has left its step loop
AtManifest(e, st) ==
    [IdleRun EXCEPT !.pc = "manifest",
                    !.in = [NoInput EXCEPT !.ns = "ns1", !.env_id = "env1"],
                    !.base_digest = digest_from_status(st).digest,
                    !.base_digest_status = digest_from_status(st).status,
                    !.entered_loop = TRUE,
                    !.manifest_steps = e.steps,
                    !.final_ok = e.ok, !.final_exit = e.exit,
                    !.final_err = IF e.ok THEN <<>>
                                  ELSE <<[step |-> StepName(1), cause |-> "exit"]>>]

\* write_manifest_v1, lines 93-95: fs::write of runs/<run_id>/manifest.json
WriteRunFile(f, p, m) == [f EXCEPT !.runs[p] = m]

\* write_manifest_v1 that leaves "latest" as it is
WriteLatestFile_Skip(f, m) == f

\* write_manifest_v1, lines 98-99: fs::write of the "latest" manifest.json
WriteLatestFile(f, m) == [f EXCEPT !.latest = m]

\* pf.completed lists the runs in the order their write_manifest_v1 returned Ok
InitManifest ==
    /\ \E e \in [Runs -> LoopEnds] : \E st \in [Runs -> {"Present", "Error"}] :
         run = [p \in Runs |-> AtManifest(e[p], st[p])]
    /\ engine = [images |-> {}, volumes |-> [n \in RunVolNames("ns1") |-> NoVolume],
                 now |-> MaxTime]
    /\ fs = InitFs
    /\ pr = NoPrune
    /\ gc = NoGc
    /\ dr = NoDoctor
    /\ pf = [pc |-> "manifests", completed |-> <<>>]

\* run, line 845, and write_manifest_v1 up to its first file write
ManifestRunFile(p) ==
    /\ run[p].pc = "manifest"
    /\ \/ /\ run' = [run EXCEPT ![p] = Bail(@, "write manifest")]
          /\ UNCHANGED fs
       \/ /\ run' = [run EXCEPT ![p].pc = "latest"]
          /\ fs' = WriteRunFile(fs, p, ManifestOf(p, run[p]))
    /\ UNCHANGED <<engine, pr, gc, dr, pf>>

\* write_manifest_v1, its second file write, and the return of run (lines 848-852)
ManifestLatest(p) ==
    /\ run[p].pc = "latest"
    /\ \/ /\ run' = [run EXCEPT ![p] = Bail(@, "write manifest")]
          /\ UNCHANGED <<fs, pf>>
       \/ /\ run' = [run EXCEPT ![p] =
                       IF @.final_ok THEN [@ EXCEPT !.pc = "done", !.result = "ok"]
                       ELSE Bail(@, "step failed")]
          /\ fs' = WriteLatestFile(fs, ManifestOf(p, run[p]))
          /\ pf' = [pf EXCEPT !.completed = Append(@, p)]
    /\ UNCHANGED <<engine, pr, gc, dr>>

NextManifest ==
    \/ \E p \in Runs : ManifestRunFile(p)
    \/ \E p \in Runs : ManifestLatest(p)

SpecManifest == InitManifest /\ [][NextManifest]_vars

----------------------------------------------------------------------------
(* Specification of one iteration of the step loop for a step with any short   *)
(* working directory                                                           *)

PathChars == {"a", ".", "/"}

\* step.workdir: absent, or any string of up to MaxPath characters
StepWorkdirs ==
    {<<>>} \cup {<<s>> : s \in UNION {[1..n -> PathChars] : n \in 0..MaxPath}}

\* exists is what wd.exists() answers for the directory of the step
InitWorkdir ==
    /\ \E rel \in StepWorkdirs : \E exists \in BOOLEAN : \E dry_run \in BOOLEAN :
         pf = [pc |-> "step", rel |-> rel, dry_run |-> dry_run,
               dirs |-> IF exists /\ IsSome(rel) THEN {rel[1]} ELSE {},
               outcome |-> None, display |-> <<>>, err |-> None, started |-> FALSE]
    /\ run = [p \in Runs |-> [IdleRun EXCEPT !.pc = "off"]]
    /\ engine = [images |-> {}, volumes |-> [n \in RunVolNames("ns1") |-> NoVolume],
                 now |-> MaxTime]
    /\ fs = InitFs
    /\ pr = NoPrune
    /\ gc = NoGc
    /\ dr = NoDoctor

\* run, lines 715-754: a dry run records the step and continues; otherwise the
\* working directory is resolved, and `podman run` starts only when it is accepted
WorkdirStep ==
    /\ pf.pc = "step"
    /\ LET w == resolve_workdir(pf.rel, pf.dirs) IN
       pf' = IF pf.dry_run THEN [pf EXCEPT !.pc = "done", !.outcome = "dry"]
             ELSE IF ~w.ok THEN [pf EXCEPT !.pc = "done", !.outcome = "rejected", !.err = w.err]
             ELSE [pf EXCEPT !.pc = "done", !.outcome = "accepted",
                             !.display = w.display, !.started = TRUE]
    /\ UNCHANGED <<run, engine, fs, pr, gc, dr>>

NextWorkdir == WorkdirStep

SpecWorkdir == InitWorkdir /\ [][NextWorkdir]_vars

----------------------------------------------------------------------------
(* Specification of one run of a job whose step names are any two distinct     *)
(* names: validate_step_order asks for distinct names only                     *)

\* step names a podci.toml may declare
LogStepNames == {<<"a", " ">>, <<"a", "_">>, <<"a", "/">>, <<"b">>, <<>>, <<"s","t","e","p">>}

LogInputs ==
    [container : {<<"u",":","1">>}, step_only : {<<>>}, dry_run : {FALSE},
     rebuild : {FALSE},
     step_order : {o \in LogStepNames \X LogStepNames : o[1] # o[2]},
     ns : {"ns1"}, env_id : {"env1"}]

LogLoadConfig(p) == LoadConfigFrom(p, LogInputs)

InitLogs ==
    /\ run = [p \in Runs |-> IF p = 1 THEN IdleRun ELSE [IdleRun EXCEPT !.pc = "off"]]
    /\ engine = [images |-> {},
                 volumes |-> [n \in RunVolNames("ns1") |-> LabeledVolume(n)],
                 now |-> MaxTime]
    /\ fs = InitFs
    /\ pr = NoPrune
    /\ gc = NoGc
    /\ dr = NoDoctor
    /\ pf = NoCall

NextLogs ==
    \/ \E p \in Runs : LogLoadConfig(p)
    \/ \E p \in Runs : ResolveStart(p)
    \/ \E p \in Runs : InspectDigest(p)
    \/ \E p \in Runs : VolumeExists(p)
    \/ \E p \in Runs : VolumeInspect(p)
    \/ \E p \in Runs : PrepareRun(p)
    \/ \E p \in Runs : StepBegin(p)
    \/ \E p \in Runs : StepFinish(p)
    \/ \E p \in Runs : WriteManifest(p)

SpecLogs == InitLogs /\ [][NextLogs]_vars

----------------------------------------------------------------------------
(* Specification of main: the command returns Ok or an error chain, and main  *)
(* prints the chain and the hint                                              *)

\* --log-format: the two formats init_tracing knows and one it rejects
LogFormats == {"human", "jsonl", "xml"}

\* the cause at the end of a chain: a PodmanRunError of any kind, or another error
RootCauses ==
    {OtherError} \cup {PodmanRunError(kind, status, <<>>) :
                         kind \in PodmanErrorKind, status \in {1, 125}}

\* an error chain: contexts added on the way up, then the root cause
ErrorChains ==
    {[i \in 1..n |-> IF i = n THEN root ELSE OtherError] :
        n \in 1..MaxChain, root \in RootCauses}

\* what real_main returns: Ok (no chain), or an error chain; an unknown log
\* format fails in init_tracing before any command runs
Outcomes(log_format) ==
    IF log_format \in {"human", "jsonl"} THEN {<<>>} \cup ErrorChains ELSE {<<OtherError>>}

InitMain ==
    /\ \E log_format \in LogFormats : \E chain \in Outcomes(log_format) :
         pf = [pc |-> "main", log_format |-> log_format, chain |-> chain,
               printed_error |-> FALSE, printed_hint |-> <<>>, exit |-> 0]
    /\ run = [p \in Runs |-> [IdleRun EXCEPT !.pc = "off"]]
    /\ engine = [images |-> {}, volumes |-> [n \in RunVolNames("ns1") |-> NoVolume],
                 now |-> MaxTime]
    /\ fs = InitFs
    /\ pr = NoPrune
    /\ gc = NoGc
    /\ dr = NoDoctor

\* main, lines 16-30: print the error chain, then the hint in human mode
Main ==
    /\ pf.pc = "main"
    /\ pf' = IF pf.chain = <<>>
             THEN [pf EXCEPT !.pc = "done", !.exit = 0]
             ELSE [pf EXCEPT !.pc = "done", !.exit = 1, !.printed_error = TRUE,
                             !.printed_hint = IF pf.log_format = "human"
                                              THEN operator_hints_for_error(pf.chain)
                                              ELSE <<>>]
    /\ UNCHANGED <<run, engine, fs, pr, gc, dr>>

NextMain == Main

SpecMain == InitMain /\ [][NextMain]_vars

----------------------------------------------------------------------------
(* Specification of the error run returns for a step that failed, and of what  *)
(* main makes of it                                                            *)

\* an anyhow error made of a message only (bail!, anyhow!)
MessageError(text) == [type |-> "message", text |-> text]

\* Display of PodmanRunError, lines 82-99 of crates/podman: a text
DisplayPodmanRunError(err) == <<"podman failed", err.kind, err.status, err.stderr_trunc>>

\* run, lines 782-795 and 848-852: the PodmanRunError of the step is formatted
\* into final_err, and run bails with that text
StepFailureChain(step, exit_code, stderr) ==
    LET err == PodmanRunError(classify_failure(exit_code, stderr), exit_code, stderr)
        final_err == <<"step failed", step>> \o DisplayPodmanRunError(err)
    IN <<MessageError(final_err)>>

InitStepError ==
    /\ \E exit_code \in ExitStatuses : \E stderr \in Stderrs :
       \E log_format \in {"human", "jsonl"} :
         pf = [pc |-> "step", exit_code |-> exit_code, stderr |-> stderr,
               log_format |-> log_format, chain |-> <<>>,
               printed_error |-> FALSE, printed_hint |-> <<>>, exit |-> 0]
    /\ run = [p \in Runs |-> [IdleRun EXCEPT !.pc = "off"]]
    /\ engine = [images |-> {}, volumes |-> [n \in RunVolNames("ns1") |-> NoVolume],
                 now |-> MaxTime]
    /\ fs = InitFs
    /\ pr = NoPrune
    /\ gc = NoGc
    /\ dr = NoDoctor

\* run from the exit of its last step to its return: Ok, or the error of the step
RunReturns ==
    /\ pf.pc = "step"
    /\ pf' = [pf EXCEPT !.pc = "main",
                        !.chain = IF pf.exit_code = 0 THEN <<>>
                                  ELSE StepFailureChain(StepName(1), pf.exit_code, pf.stderr)]
    /\ UNCHANGED <<run, engine, fs, pr, gc, dr>>

NextStepError == RunReturns \/ Main

SpecStepError == InitStepError /\ [][NextStepError]_vars

----------------------------------------------------------------------------
(* Properties of the run orchestrator *)

\* the steps of a run that have been started (or skipped in dry-run mode)
Attempted(r) == {i \in 1..Len(r.state) : r.state[i] # "Pending"}

\* the first step of a run that failed, 0 if none did
FirstFailed(r) ==
    IF \E i \in 1..Len(r.state) : r.state[i] = "Failed"
    THEN CHOOSE i \in 1..Len(r.state) :
            r.state[i] = "Failed" /\ \A j \in 1..(i - 1) : r.state[j] # "Failed"
    ELSE 0

\* C1: once a step of a run has failed (non-zero exit or executor error), every
\* later step of the run stays Pending and the orchestrator is at the manifest or
\* done; the manifest of the run, once written, holds exactly the records of the
\* steps up to and including the failed one, in order, with result.ok = false.
C1_ShortCircuit ==
    \A p \in Runs :
      LET r == run[p]
          m == fs.runs[p]
      IN \A i \in 1..Len(r.state) :
            r.state[i] = "Failed" =>
              /\ \A j \in (i + 1)..Len(r.state) : r.state[j] = "Pending"
              /\ r.pc \in {"manifest", "done"}
              /\ m.written =>
                   /\ Len(m.steps) = i
                   /\ \A k \in 1..i : m.steps[k].name = r.steps_to_run[k]
                   /\ m.result.ok = FALSE

\* a job with two steps whose first step failed: the manifest has one record
C1_Witness ==
    \E p \in Runs :
      /\ Len(run[p].state) = 2
      /\ run[p].state[1] = "Failed"
      /\ run[p].state[2] = "Pending"
      /\ fs.runs[p].written
      /\ Len(fs.runs[p].steps) = 1

\* C2: however the step loop of a run ends, run has written a manifest when it
\* returns (unless the manifest write itself failed), and the manifest has a
\* record for every step attempted.
C2_ManifestAlwaysWritten ==
    \A p \in Runs :
      (run[p].pc = "done" /\ run[p].entered_loop /\ run[p].err # "write manifest") =>
        /\ fs.runs[p].written
        /\ \A i \in Attempted(run[p]) :
              \E k \in 1..Len(fs.runs[p].steps) :
                 fs.runs[p].steps[k].name = run[p].steps_to_run[i]

ConfigErrors ==
    {"unknown job", "unknown profile", "unknown step",
     "invalid container reference", "unknown container template"}

PathErrors == {"workdir absolute", "workdir contains ..", "workdir does not exist"}

\* C3: a run that ends with a configuration error or a path-safety error has
\* invoked no container-engine subprocess.
C3_FailFast ==
    \A p \in Runs :
      (run[p].pc = "done" /\ run[p].err \in ConfigErrors \cup PathErrors) =>
        run[p].calls = <<>>

\* C4: the result in the manifest is ok with exit code 0 and no error iff no
\* attempted step failed; otherwise it is not ok, its exit code is the exit code of
\* the first failed step (1 if the executor errored) and its error names that
\* step; run returns Ok only with such an ok manifest.
C4_FinalResult ==
    \A p \in Runs :
      LET r == run[p]
          m == fs.runs[p]
          f == FirstFailed(r)
      IN /\ m.written =>
              /\ m.result.ok <=> (\A i \in Attempted(r) : r.state[i] \in {"Succeeded", "Skipped"})
              /\ m.result.ok => (m.result.exit_code = 0 /\ m.result.error = <<>>)
              /\ ~m.result.ok =>
                   /\ f # 0
                   /\ m.result.exit_code =
                         (IF r.exec[f].kind = "error" THEN 1 ELSE r.exec[f].code)
                   /\ Len(m.result.error) = 1
                   /\ m.result.error[1].step = r.steps_to_run[f]
         /\ (r.pc = "done" /\ r.result = "ok") => (m.written /\ m.result.ok)

\* a written manifest of a run whose second step exited with 127
C4_Witness ==
    \E p \in Runs :
      /\ fs.runs[p].written
      /\ ~fs.runs[p].result.ok
      /\ fs.runs[p].result.exit_code = 127
      /\ FirstFailed(run[p]) = 2

\* C5: at most one step of a run is Running, a step is started only when every
\* step before it has finished successfully, and the step records are a prefix of
\* the steps to run, in that order.
C5_Sequential ==
    \A p \in Runs :
      LET r == run[p] IN
      /\ Cardinality({i \in 1..Len(r.state) : r.state[i] = "Running"}) <= 1
      /\ \A i \in Attempted(r) :
            \A j \in 1..(i - 1) : r.state[j] \in {"Succeeded", "Skipped"}
      /\ Len(r.manifest_steps) <= Len(StepsToRun(r.in))
      /\ \A k \in 1..Len(r.manifest_steps) :
            r.manifest_steps[k].name = StepsToRun(r.in)[k]

\* the second step is running after the first succeeded and was recorded
C5_Witness ==
    \E p \in Runs :
      /\ Len(run[p].state) = 2
      /\ run[p].state[1] = "Succeeded"
      /\ run[p].state[2] = "Running"
      /\ Len(run[p].manifest_steps) = 1

----------------------------------------------------------------------------
(* Properties of concurrent runs *)

\* run p has invoked `podman volume create` for the volume `name`
TriedCreate(p, name) ==
    \E i \in 1..Len(run[p].calls) :
       run[p].calls[i].op = "volume create" /\ run[p].calls[i].arg = name

\* C6: when two runs of one namespace both found a cache volume absent and both
\* invoked its creation, neither of them fails with the volume-creation error.
C6_RedundantCreateBenign ==
    \A p \in Runs : \A q \in Runs \ {p} :
      \A name \in DOMAIN engine.volumes :
        (TriedCreate(p, name) /\ TriedCreate(q, name)) =>
           (run[p].err # "create volume" /\ run[q].err # "create volume")

----------------------------------------------------------------------------
(* Properties of the image resolver *)

\* the positions of the `podman build` invocations among the calls of a run
BuildCalls(r) == {i \in 1..Len(r.calls) : r.calls[i].op = "build"}

\* C7 as stated: over consecutive resolve calls on a symbolic template without
\* rebuild, the build is invoked at most once.
C7_AtMostOneBuild ==
    \A p \in Runs :
      ~run[p].in.rebuild => Cardinality(BuildCalls(run[p])) <= 1

\* C7 amended: over consecutive resolve calls on a symbolic template without
\* rebuild, a build is invoked only right after `image exists` reported the tag
\* missing, and no build is invoked after a build that succeeded (so at most one
\* build succeeds; a failed build may be tried again by a later call).
C7_AtMostOneSuccessfulBuild ==
    \A p \in Runs :
      ~run[p].in.rebuild =>
        \A i \in BuildCalls(run[p]) :
          /\ i > 1
          /\ run[p].calls[i - 1].op = "image exists"
          /\ run[p].calls[i - 1].res = "1"
          /\ run[p].calls[i].res = "0" =>
               \A j \in (i + 1)..Len(run[p].calls) : run[p].calls[j].op # "build"

\* a later resolve call found the tag a successful build had made and did not build
C7_Witness ==
    \E p \in Runs :
      /\ ~run[p].in.rebuild
      /\ \E i \in BuildCalls(run[p]) :
           /\ run[p].calls[i].res = "0"
           /\ \E j \in (i + 1)..Len(run[p].calls) :
                run[p].calls[j].op = "image exists" /\ run[p].calls[j].res = "0"

----------------------------------------------------------------------------
(* Properties of the prune planner *)

\* how many resources of the list come before position i in newest-first order:
\* the strictly newer ones and the equally new ones earlier in the list
Rank(rs, i) ==
    Cardinality({j \in 1..Len(rs) :
                   \/ rs[j].created > rs[i].created
                   \/ (rs[j].created = rs[i].created /\ j < i)})

\* the resource is older than the cutoff of the policy, if it has one
OldEnough(r, policy, now) ==
    IsSome(policy.older_than_days) => r.created < now - policy.older_than_days[1]

DistinctTimes(rs) ==
    \A i \in 1..Len(rs) : \A j \in 1..Len(rs) : i # j => rs[i].created # rs[j].created

\* C10 as stated: the selected resources are those outside the keep most recently
\* created that are old enough, the selected set is the same for every order of the
\* input list, and without a max age max(0, count - keep) resources are selected.
C10_OrderIndependent ==
    gc.pc = "done" =>
      /\ \A q \in Perms(gc.resources) :
            Range(select_prune_candidates(q, gc.policy, gc.now)) = Range(gc.out)
      /\ ~IsSome(gc.policy.older_than_days) =>
            Len(gc.out) = (IF Len(gc.resources) > gc.policy.keep
                           THEN Len(gc.resources) - gc.policy.keep ELSE 0)

\* C10 amended: the selected resources are exactly those outside the first keep
\* of the list in newest-first order, where equally old resources keep their input
\* order, that are old enough; without a max age max(0, count - keep) are
\* selected; the creation times selected are the same for every order of the
\* input, and so is the selected set when the creation times are pairwise distinct.
C10_Selection ==
    gc.pc = "done" =>
      /\ Range(gc.out) =
            {gc.resources[i] : i \in {k \in 1..Len(gc.resources) :
                 /\ Rank(gc.resources, k) >= gc.policy.keep
                 /\ OldEnough(gc.resources[k], gc.policy, gc.now)}}
      /\ \A i \in 1..Len(gc.out) : \A j \in 1..Len(gc.out) :
            i # j => gc.out[i] # gc.out[j]
      /\ ~IsSome(gc.policy.older_than_days) =>
            Len(gc.out) = (IF Len(gc.resources) > gc.policy.keep
                           THEN Len(gc.resources) - gc.policy.keep ELSE 0)
      /\ \A q \in Perms(gc.resources) :
            LET o == select_prune_candidates(q, gc.policy, gc.now) IN
            /\ [i \in 1..Len(o) |-> o[i].created] = [i \in 1..Len(gc.out) |-> gc.out[i].created]
            /\ DistinctTimes(gc.resources) => Range(o) = Range(gc.out)

\* three resources given oldest first, keep = 1 and a max age: the middle one is
\* outside the newest one but too young, only the oldest is selected
C10_Witness ==
    /\ gc.pc = "done"
    /\ Len(gc.resources) = 3
    /\ gc.resources[1].created < gc.resources[2].created
    /\ gc.resources[2].created < gc.resources[3].created
    /\ gc.policy.keep = 1
    /\ IsSome(gc.policy.older_than_days)
    /\ gc.out = <<gc.resources[1]>>

----------------------------------------------------------------------------
(* Properties of prune *)

RemovedNames == {x.name : x \in pr.removed}

\* C8: every volume prune has removed carried, when it was removed, both the
\* managed=true label and a namespace label.
C8_OnlyOwnedRemoved ==
    \A x \in pr.removed :
       x.labels.managed = "true" /\ x.labels.namespace # None

\* prune removed a volume and left a foreign volume and a managed volume without
\* namespace label in place
C8_Witness ==
    /\ pr.pc = "done"
    /\ pr.removed # {}
    /\ \E n \in DOMAIN engine.volumes :
         engine.volumes[n].present /\ engine.volumes[n].labels.managed # "true"
    /\ \E n \in DOMAIN engine.volumes :
         /\ engine.volumes[n].present
         /\ engine.volumes[n].labels.managed = "true"
         /\ engine.volumes[n].labels.namespace = None

\* C9 as stated: without the confirmation prune removes nothing; with it, when
\* prune has returned, every volume of the plan and no other has been removed.
C9_RemovesWholePlan ==
    (pr.pc = "done" /\ pr.planned) =>
       IF pr.yes THEN RemovedNames = Range(pr.to_delete) ELSE pr.removed = {}

\* C9 amended: without the confirmation prune removes nothing; with it prune
\* removes the volumes of the plan one by one in plan order and no other volume,
\* and has removed all of them when it returns Ok; it returns an error at the
\* first removal that fails and leaves the rest of the plan in place.
C9_RemovesPlanUntilFailure ==
    /\ ~pr.yes => pr.removed = {}
    /\ ~pr.planned => pr.removed = {}
    /\ pr.planned =>
         /\ RemovedNames \subseteq Range(pr.to_delete)
         /\ pr.pc \in {"remove", "done"} /\ pr.yes /\ pr.to_delete # <<>> =>
               RemovedNames = {pr.to_delete[k] : k \in 1..(pr.j - 1)}
         /\ (pr.pc = "done" /\ pr.result = "ok" /\ pr.yes) =>
               RemovedNames = Range(pr.to_delete)
         /\ (pr.pc = "done" /\ pr.result = "err") =>
               RemovedNames # Range(pr.to_delete)
    /\ \A n \in RemovedNames : ~engine.volumes[n].present

\* a confirmed prune removed a plan of two volumes and kept a labeled volume
C9_Witness ==
    /\ pr.pc = "done"
    /\ pr.result = "ok"
    /\ pr.yes
    /\ Len(pr.to_delete) = 2
    /\ RemovedNames = Range(pr.to_delete)
    /\ \E n \in DOMAIN engine.volumes :
         /\ engine.volumes[n].present
         /\ engine.volumes[n].labels.managed = "true"
         /\ engine.volumes[n].labels.namespace # None

\* the namespaces of the volumes prune owns, the selected ones, and the volumes
\* of a namespace
OwnedNamespaces == {pr.owned[k].namespace : k \in 1..Len(pr.owned)}

SelectedNamespaces == {pr.candidates[k].name : k \in 1..Len(pr.candidates)}

OwnedIn(ns) == {pr.owned[k] : k \in {i \in 1..Len(pr.owned) : pr.owned[i].namespace = ns}}

\* C11: in a prune plan every candidate is a namespace of the owned volumes whose
\* timestamp is the newest creation time among its member volumes, the delete
\* list is exactly the union of the member volumes of the selected namespaces,
\* each namespace is listed with all of its volumes or with none, and no volume
\* of a kept namespace is listed.
C11_PlanByNamespace ==
    pr.planned =>
       /\ SelectedNamespaces \subseteq OwnedNamespaces
       /\ \A k \in 1..Len(pr.candidates) :
            LET times == {v.created_at[1] : v \in {m \in OwnedIn(pr.candidates[k].name) :
                                                     IsSome(m.created_at)}}
            IN times # {} =>
                 /\ pr.candidates[k].created \in times
                 /\ \A t \in times : t <= pr.candidates[k].created
       /\ Range(pr.to_delete) =
             UNION {{v.name : v \in OwnedIn(ns)} : ns \in SelectedNamespaces}
       /\ \A ns \in OwnedNamespaces :
            LET names == {v.name : v \in OwnedIn(ns)}
            IN \/ names \subseteq Range(pr.to_delete)
               \/ names \cap Range(pr.to_delete) = {}
       /\ \A ns \in OwnedNamespaces \ SelectedNamespaces :
            {v.name : v \in OwnedIn(ns)} \cap Range(pr.to_delete) = {}

\* two volumes of different age in one namespace and one newer volume in another,
\* keep = 1: both volumes of the older namespace are listed, the other is kept
C11_Witness ==
    /\ pr.planned
    /\ pr.keep = 1
    /\ Len(pr.owned) = 3
    /\ Len(pr.to_delete) = 2
    /\ \E ns \in SelectedNamespaces :
         /\ Cardinality(OwnedIn(ns)) = 2
         /\ \E a, b \in OwnedIn(ns) :
              IsSome(a.created_at) /\ IsSome(b.created_at) /\ a.created_at # b.created_at
    /\ OwnedNamespaces \ SelectedNamespaces # {}

----------------------------------------------------------------------------
(* Properties of volume labeling *)

\* the volumes a step of the engine brings into existence
CreatedInStep ==
    {n \in DOMAIN engine.volumes : ~engine.volumes[n].present /\ engine'.volumes[n].present}

\* C12: every volume an operation creates carries at creation time managed=true,
\* the namespace and the fingerprint of the creating run, and a volume-kind tag.
C12_CreatedWithOwnershipLabels ==
    [][\A n \in CreatedInStep :
         LET labels == engine'.volumes[n].labels IN
         /\ labels.managed = "true"
         /\ labels.volume_kind \in Range(VolKinds)
         /\ \E p \in Runs :
              /\ run[p].pc = "vol_create"
              /\ labels.namespace = run[p].in.ns
              /\ labels.env_id = run[p].in.env_id]_vars

----------------------------------------------------------------------------
(* Properties of the fingerprint *)

\* what a sequence of insertions leaves in a map: each key with its last value
ContentOf(ins) ==
    {<<ins[i].k, ins[i].v>> : i \in {j \in 1..Len(ins) :
                                       \A l \in (j + 1)..Len(ins) : ins[l].k # ins[j].k}}

\* two recipes build configurations with the same canonical content
SameContent(r1, r2) ==
    /\ ContentOf(r1.env) = ContentOf(r2.env)
    /\ r1.argv = r2.argv
    /\ r1.container = r2.container

\* C13: two configurations with equal version, project, job, profile, container,
\* profile environment, step order and per-step argv/workdir/environment have
\* equal fingerprints whatever the insertion order of their maps, and computing
\* the fingerprint twice on an unmodified configuration yields the same digest.
C13_FingerprintCanonical ==
    pf.pc = "done" =>
       /\ pf.again = pf.out[1]
       /\ SameContent(pf.recipe[1], pf.recipe[2]) => pf.out[1] = pf.out[2]

\* the same content inserted in different orders in the profile environment, the
\* step map and a step environment, with equal digests
C13_Witness ==
    /\ pf.pc = "done"
    /\ pf.out[1].ok
    /\ pf.out[1] = pf.out[2]
    /\ pf.recipe[1].env = <<[k |-> "A", v |-> "1"], [k |-> "B", v |-> "2"]>>
    /\ pf.recipe[2].env = <<[k |-> "B", v |-> "2"], [k |-> "A", v |-> "1"]>>
    /\ pf.recipe[1].s2_first # pf.recipe[2].s2_first
    /\ pf.recipe[1].b_first # pf.recipe[2].b_first

----------------------------------------------------------------------------
(* Properties of the namespace *)

SafeChars == Lower \cup Digit \cup {"_", "-", "."}

\* seg is the folding of name: as long as name, made of safe characters only,
\* with every lower-case letter, digit and kept character left as it was
IsFoldingOf(seg, name) ==
    /\ Len(seg) = Len(name)
    /\ \A i \in 1..Len(seg) :
         /\ seg[i] \in SafeChars
         /\ name[i] \in SafeChars => seg[i] = name[i]
         /\ name[i] \notin SafeChars \cup Upper => seg[i] = "_"

\* C14: namespace_from returns "podci", the folded project, the folded job and
\* the first 12 characters of the fingerprint, joined by underscores; the folded
\* segments consist of lower-case ASCII letters, digits, '_', '-' and '.' only.
C14_NamespaceShape ==
    pf.pc = "done" =>
       LET lp == Len(pf.project)
           lj == Len(pf.job)
           le == IF Len(pf.env_id) < 12 THEN Len(pf.env_id) ELSE 12
           o == pf.out
       IN /\ Len(o) = 6 + lp + 1 + lj + 1 + le
          /\ SubSeq(o, 1, 6) = <<"p","o","d","c","i","_">>
          /\ IsFoldingOf(SubSeq(o, 7, 6 + lp), pf.project)
          /\ o[7 + lp] = "_"
          /\ IsFoldingOf(SubSeq(o, 8 + lp, 7 + lp + lj), pf.job)
          /\ o[8 + lp + lj] = "_"
          /\ SubSeq(o, Len(o) - le + 1, Len(o)) = SubSeq(pf.env_id, 1, le)

\* a project with an upper-case letter and a folded character, and a fingerprint
\* longer than the prefix
C14_Witness ==
    /\ pf.pc = "done"
    /\ pf.project = <<"B", "/">>
    /\ pf.job = <<"é">>
    /\ Len(pf.env_id) = 16
    /\ pf.out = <<"p","o","d","c","i","_","b","_","_","_","_",
                  "0","1","2","3","4","5","6","7","8","9","a","b">>

----------------------------------------------------------------------------
(* Properties of reference classification *)

CatalogNames == {RustAlpine, RustDebian, CppDebian, KdeMixedDebian}

RefCharsAllowed == Lower \cup Upper \cup Digit \cup {".", "-", "_", "/", "@", ":"}

Qualified(container) == Range(container) \cap {"/", ":", "@"} # {}

\* C15: classification has three outcomes: a catalog name is symbolic; any other
\* reference with at least one of '/', ':', '@' and only ASCII alphanumerics and
\* '.-_/@:' is an explicit image reference; every other reference is rejected.
C15_ClassificationTotal ==
    pf.pc = "done" =>
       /\ pf.out \in {"SymbolicTemplate", "ExplicitImageRef",
                      "invalid container reference", "unknown container template"}
       /\ pf.out = "SymbolicTemplate" <=> pf.container \in CatalogNames
       /\ pf.out = "ExplicitImageRef" <=>
             /\ pf.container \notin CatalogNames
             /\ Qualified(pf.container)
             /\ Range(pf.container) \subseteq RefCharsAllowed
       /\ pf.out = "unknown container template" =>
             pf.container \notin CatalogNames /\ ~Qualified(pf.container)
       /\ pf.out = "invalid container reference" =>
             Qualified(pf.container) /\ ~(Range(pf.container) \subseteq RefCharsAllowed)

\* a bare unknown name was rejected
C15_Witness ==
    /\ pf.pc = "done"
    /\ pf.container = <<"u", "1">>
    /\ pf.out = "unknown container template"

----------------------------------------------------------------------------
(* Properties of failure classification and operator hints *)

\* the lower-cased stderr of the captured invocation mentions the text
StderrMentions(text) == Contains(to_lowercase(pf.stderr), text)

\* C16 as stated: a failure with a non-zero exit whose stderr contains "storage
\* error" is of the storage-error kind and its hint contains the word storage.
C16_StorageErrorText ==
    (pf.pc = "done" /\ pf.exit_code # 0
        /\ StderrMentions(<<"s","t","o","r","a","g","e"," ","e","r","r","o","r">>)) =>
       /\ pf.err[1].kind = "StorageError"
       /\ IsSome(pf.hint) /\ "storage" \in Range(pf.hint[1])

\* C16 amended: a failure with a non-zero exit is of the storage-error kind
\* exactly when its stderr contains, in any case, "creating container storage" or
\* "containers/storage" and does not contain "permission denied"; the hint for
\* such a failure contains the word storage.
C16_StorageMarkers ==
    (pf.pc = "done" /\ pf.exit_code # 0) =>
       /\ pf.err[1].kind = "StorageError" <=>
             /\ \/ StderrMentions(CreatingStorageMarker)
                \/ StderrMentions(ContainersStorageMarker)
             /\ ~StderrMentions(PermissionDeniedMarker)
       /\ pf.err[1].kind = "StorageError" =>
             IsSome(pf.hint) /\ "storage" \in Range(pf.hint[1])

\* exit 125 with a capitalised storage marker and "storage error" on stderr
C16_Witness ==
    /\ pf.pc = "done"
    /\ pf.exit_code = 125
    /\ StderrMentions(<<"s","t","o","r","a","g","e"," ","e","r","r","o","r">>)
    /\ StderrMentions(CreatingStorageMarker)
    /\ pf.err[1].kind = "StorageError"
    /\ pf.hint = <<HintStorageError>>

\* the PodmanRunErrors of the chain main was handed
PodmanErrorsInChain == SelectSeq(pf.chain, LAMBDA cause : cause.type = "PodmanRunError")

\* C20 as stated: whenever the command fails with a chain that contains a
\* PodmanRunError, main appends the hint of that error's kind, a text fixed per
\* kind; when the chain contains none, no hint is produced.
C20_HintWheneverClassified ==
    pf.pc = "done" =>
       IF PodmanErrorsInChain # <<>>
       THEN pf.printed_hint = <<hints_for_podman_kind(PodmanErrorsInChain[1].kind)>>
       ELSE pf.printed_hint = <<>>

\* C20 amended: the hint of the error's kind is appended whenever the command
\* fails with a chain that contains a PodmanRunError and the log format is
\* human; no hint is produced in any other log format, nor when the chain
\* contains no such error, nor when the command succeeds.
C20_HintInHumanMode ==
    pf.pc = "done" =>
       /\ pf.printed_error <=> pf.chain # <<>>
       /\ IF PodmanErrorsInChain # <<>> /\ pf.log_format = "human"
          THEN pf.printed_hint = <<hints_for_podman_kind(PodmanErrorsInChain[1].kind)>>
          ELSE pf.printed_hint = <<>>

\* in human mode a permission error below two contexts got its hint
C20_Witness ==
    /\ pf.pc = "done"
    /\ pf.log_format = "human"
    /\ Len(pf.chain) = 3
    /\ pf.chain[3].type = "PodmanRunError"
    /\ pf.chain[3].kind = "PermissionDenied"
    /\ pf.printed_hint = <<HintPermissionDenied>>

----------------------------------------------------------------------------
(* Properties of dry runs, digest capture and pre-existing volumes *)

\* C17: in dry-run mode no step is run in a container; each step of the steps to
\* run gets, in order, a record with exit code 0, no duration and no log paths;
\* when the loop is over every step has its record and the result is ok with
\* exit code 0, in the run and in the manifest it writes.
C17_DryRunSynthetic ==
    \A p \in Runs :
      LET r == run[p]
          m == fs.runs[p]
      IN r.in.dry_run =>
           /\ \A k \in 1..Len(r.calls) : r.calls[k].op # "run"
           /\ fs.logs[p] = {}
           /\ Len(r.manifest_steps) <= Len(r.steps_to_run)
           /\ \A k \in 1..Len(r.manifest_steps) :
                r.manifest_steps[k] = [name |-> r.steps_to_run[k], has_duration |-> FALSE,
                                       exit_code |-> 0, stdout_path |-> <<>>,
                                       stderr_path |-> <<>>]
           /\ (r.entered_loop /\ r.pc \in {"manifest", "done"}) =>
                /\ Len(r.manifest_steps) = Len(r.steps_to_run)
                /\ r.final_ok /\ r.final_exit = 0 /\ r.final_err = <<>>
           /\ m.written =>
                /\ m.steps = r.manifest_steps
                /\ Len(m.steps) = Len(StepsToRun(r.in))
                /\ m.result = [ok |-> TRUE, exit_code |-> 0, error |-> <<>>]

\* a dry run of a job with two steps wrote its manifest after it had called the
\* engine for the setup
C17_Witness ==
    \E p \in Runs :
      /\ run[p].in.dry_run
      /\ run[p].pc = "done"
      /\ run[p].result = "ok"
      /\ run[p].calls # <<>>
      /\ fs.runs[p].written
      /\ Len(fs.runs[p].steps) = 2

\* the last engine call of a run so far, if it was the digest inspection
DigestInspected(r) == r.calls # <<>> /\ r.calls[Len(r.calls)].op = "image inspect"

\* C18: however the digest inspection of the resolved image ends (a digest, no
\* digest, or a failed inspection), image resolution returns Ok and the run goes
\* on to the volume setup; the recorded digest is present exactly when the
\* recorded status is "present", and absent with "unavailable" or "error".
C18_DigestNeverBlocks ==
    \A p \in Runs :
      LET r == run[p] IN
      /\ DigestInspected(r) =>
           /\ r.pc = "vol_exists"
           /\ r.err = None
           /\ r.base_digest_status \in {"present", "unavailable", "error"}
      /\ IsSome(r.base_digest) <=> r.base_digest_status = "present"

\* C19: a cache volume that exists is never created again nor changed by a run;
\* once `podman volume exists` has found the name, the run inspects it and,
\* whether the labels are missing or the inspection fails, goes on without an
\* error to the next volume or to the steps, with at most a warning.
C19_UnlabeledVolumeUsable ==
    [][\A p \in Runs :
         /\ \A n \in DOMAIN engine.volumes :
              engine.volumes[n].present => engine'.volumes[n] = engine.volumes[n]
         /\ (run[p].pc = "vol_exists" /\ run'[p].pc \in {"vol_create", "vol_inspect"}) =>
              (run'[p].pc = "vol_inspect" <=> EngineVolumeExists(engine, CurVol(run[p])))
         /\ (run[p].pc = "vol_inspect" /\ run'[p] # run[p]) =>
              /\ run'[p].pc \in {"vol_exists", "prepare"}
              /\ run'[p].err = None /\ run'[p].result = None
              /\ run'[p].calls[Len(run'[p].calls)].op = "volume inspect"
              /\ run'[p].warned \subseteq run[p].warned \cup {VolKinds[run[p].vk]}
              /\ (run'[p].calls[Len(run'[p].calls)].res = "0"
                    /\ engine.volumes[CurVol(run[p])].labels.managed # "true") =>
                   VolKinds[run[p].vk] \in run'[p].warned]_vars

\* a step is running in a run that found one cache volume without labels and
\* could not inspect another; the unlabeled volume is as it was
C19_Witness ==
    \E p \in Runs :
      /\ run[p].pc = "running"
      /\ "target" \in run[p].warned
      /\ \E k \in 1..Len(run[p].calls) :
           run[p].calls[k].op = "volume inspect" /\ run[p].calls[k].res = "err"
      /\ engine.volumes[VolName("ns1", "target")] = UnlabeledVolume

\* C21: on a completed subprocess the allow-failure mode returns Ok with the
\* exit code and both streams whatever the status; the plain mode returns Ok
\* with them only for exit status 0 and otherwise an error of a known kind that
\* carries the exit code.
C21_CaptureModes ==
    pf.pc = "done" =>
      LET code == IF pf.out.status = <<>> THEN 1 ELSE pf.out.status[1]
          whole == [exit_code |-> code, stdout |-> pf.out.stdout, stderr |-> pf.out.stderr]
      IN /\ pf.mode = "allow" => pf.ok /\ pf.err = <<>> /\ pf.result = <<whole>>
         /\ (pf.mode = "plain" /\ pf.out.status = <<0>>) =>
              pf.ok /\ pf.err = <<>> /\ pf.result = <<whole>>
         /\ (pf.mode = "plain" /\ pf.out.status # <<0>>) =>
              /\ ~pf.ok /\ pf.result = <<>> /\ Len(pf.err) = 1
              /\ pf.err[1].type = "PodmanRunError"
              /\ pf.err[1].kind \in PodmanErrorKind
              /\ pf.err[1].status = code

\* the allow-failure mode has returned a failed exit code with output on both streams
C21_Witness ==
    /\ pf.pc = "done" /\ pf.mode = "allow" /\ pf.ok
    /\ pf.out.status = <<125>> /\ pf.out.stdout # <<>> /\ pf.out.stderr # <<>>
    /\ pf.result[1].exit_code = 125

\* the number of arguments before the image when there are k environment entries
OptionsEnd(k) == 15 + 2 * k

\* C22: the invocation of a step is: run, --rm, the user-namespace flag, the
\* three cache mounts and the repository mount each ending in :Z, the working
\* directory flag, the CARGO_HOME variable, the profile entries and then the
\* step entries as --env pairs, the image, and the argv of the step unchanged
\* as the last arguments.
C22_RunArgsOrder ==
    pf.pc = "done" =>
      LET a == pf.args
          np == Len(pf.profile_env)
          ns == Len(pf.step_env)
          img == OptionsEnd(np + ns)
          mount(i, src, dst) == a[i] = <<"-v">> /\ a[i + 1] = src \o <<":", dst, ":Z">>
      IN /\ Len(a) = img + 1 + Len(pf.argv)
         /\ a[1] = <<"run">> /\ a[3] = <<"--userns=keep-id">>
         /\ mount(4, <<"ns1", "cargo_registry">>, "/usr/local/cargo/registry")
         /\ mount(6, <<"ns1", "cargo_git">>, "/usr/local/cargo/git")
         /\ mount(8, <<"ns1", "target">>, "/work/target")
         /\ mount(10, <<"/repo">>, "/work")
         /\ a[12] = <<"-w">>
         /\ a[13] = (IF pf.workdir = <<>> THEN Work ELSE Work \o <<"/">> \o pf.workdir[1])
         /\ a[14] = <<"--env">> /\ a[15] = <<"CARGO_HOME", "=", "/usr/local/cargo">>
         /\ \A i \in 1..np :
              /\ a[14 + 2 * i] = <<"--env">>
              /\ a[15 + 2 * i] = <<pf.profile_env[i].k, "=", pf.profile_env[i].v>>
         /\ \A i \in 1..ns :
              /\ a[14 + 2 * (np + i)] = <<"--env">>
              /\ a[15 + 2 * (np + i)] = <<pf.step_env[i].k, "=", pf.step_env[i].v>>
         /\ a[img + 1] = <<pf.image>>
         /\ \A i \in 1..Len(pf.argv) : a[img + 1 + i] = <<pf.argv[i]>>

\* profile and step both set entries, and the argv has three arguments
C22_Witness ==
    /\ pf.pc = "done" /\ Len(pf.argv) = 3
    /\ pf.profile_env # <<>> /\ pf.step_env # <<>> /\ pf.workdir # <<>>
    /\ pf.args[Len(pf.args)] = <<"-v">>

\* the --env entries podman reads from an invocation: it takes options up to the
\* first argument that is no option, which is the image
RECURSIVE EnvOptions(_, _)
EnvOptions(args, i) ==
    IF i > Len(args) THEN <<>>
    ELSE IF args[i] \in {<<"--rm">>, <<"--userns=keep-id">>} THEN EnvOptions(args, i + 1)
    ELSE IF args[i] \in {<<"-v">>, <<"-w">>} THEN EnvOptions(args, i + 2)
    ELSE IF args[i] = <<"--env">> /\ i < Len(args)
         THEN LET e == [k |-> args[i + 1][1], v |-> args[i + 1][3]]
              IN <<e>> \o EnvOptions(args, i + 2)
    ELSE <<>>

\* the value of variable k in the container: the last --env entry for k wins
EnvInEffect(args, k) ==
    LET hits == SelectSeq(EnvOptions(args, 2), LAMBDA e : e.k = k)
    IN IF hits = <<>> THEN <<>> ELSE <<hits[Len(hits)].v>>

\* C27: a key set by the step has the step's value in the container invocation,
\* also when the profile sets it; a key only the profile sets has the profile's
\* value; a key neither sets is not passed.
C27_StepEnvWins ==
    pf.pc = "done" =>
      \A k \in {"A", "B"} :
        LET inProfile == BTreeGet(pf.profile_env, k)
            inStep == BTreeGet(pf.step_env, k)
        IN EnvInEffect(pf.args, k) = (IF inStep # <<>> THEN inStep ELSE inProfile)

\* profile and step set A to different values, and only the profile sets B
C27_Witness ==
    /\ pf.pc = "done"
    /\ BTreeGet(pf.profile_env, "A") = <<"1">> /\ BTreeGet(pf.step_env, "A") = <<"2">>
    /\ BTreeGet(pf.profile_env, "B") # <<>> /\ BTreeGet(pf.step_env, "B") = <<>>
    /\ EnvInEffect(pf.args, "A") = <<"2">>

\* the positions of the invocations of `op` among the subprocesses of a run
CallsOf(r, op) == {k \in 1..Len(r.calls) : r.calls[k].op = op}

\* what `podman image exists` answered in a run: Some("0") when the tag exists
ExistsAnswer(r) ==
    LET at == {k \in CallsOf(r, "image exists") : r.calls[k].res \in {"0", "1"}}
    IN IF at = {} THEN <<>> ELSE <<r.calls[CHOOSE k \in at : TRUE].res>>

\* C23: a build is invoked only for a symbolic template, and only when a rebuild
\* was requested or the tag was found missing; a resolution of a template that
\* got as far as inspecting the digest has invoked a build exactly in that case;
\* a resolution of an explicit reference invokes nothing but the digest
\* inspection and writes no Containerfile.
C23_BuildIffNeeded ==
    \A p \in Runs :
      LET r == run[p]
          kind == classify_container_ref(r.in.container)
          needed == r.in.rebuild \/ ExistsAnswer(r) = <<"1">>
      IN /\ CallsOf(r, "build") # {} => kind = "SymbolicTemplate" /\ needed
         /\ Cardinality(CallsOf(r, "build")) <= 1
         /\ (kind = "SymbolicTemplate" /\ CallsOf(r, "image inspect") # {}) =>
              (CallsOf(r, "build") # {} <=> needed)
         /\ (r.pc # "start" /\ kind = "ExplicitImageRef") =>
              /\ CallsOf(r, "build") \cup CallsOf(r, "rmi") \cup CallsOf(r, "image exists") = {}
              /\ r.in.container \notin fs.containerfiles
              /\ r.pc \notin {"resolve", "inspect"} /\ r.err # "podman not found" =>
                   CallsOf(r, "image inspect") = {1}

\* a template whose tag exists was resolved without a rebuild and no build was invoked
C23_Witness ==
    \E p \in Runs :
      /\ classify_container_ref(run[p].in.container) = "SymbolicTemplate"
      /\ ~run[p].in.rebuild
      /\ ExistsAnswer(run[p]) = <<"0">>
      /\ CallsOf(run[p], "image inspect") # {}
      /\ CallsOf(run[p], "build") = {}

\* C24: the prior image is removed only on a rebuild of a tag that exists; on a
\* rebuild the build is invoked with the cache disabled and after the removal
\* has returned, and nothing is removed after the build.
C24_RemoveThenBuild ==
    \A p \in Runs :
      LET r == run[p] IN
      /\ \A k \in CallsOf(r, "rmi") :
           /\ r.in.rebuild
           /\ k > 1 /\ r.calls[k - 1].op = "image exists" /\ r.calls[k - 1].res = "0"
           /\ \A b \in CallsOf(r, "build") : k < b
      /\ \A b \in CallsOf(r, "build") :
           /\ r.calls[b].arg.no_cache = r.in.rebuild
           /\ (r.in.rebuild /\ ExistsAnswer(r) = <<"0">>) =>
                r.calls[b - 1].op = "rmi"

\* a rebuild of a tag that exists: removed, then built without the cache
C24_Witness ==
    \E p \in Runs :
      LET r == run[p] IN
      /\ r.in.rebuild /\ ExistsAnswer(r) = <<"0">>
      /\ \E b \in CallsOf(r, "build") :
           r.calls[b].res = "0" /\ r.calls[b].arg.no_cache /\ r.calls[b - 1].op = "rmi"

\* C25: the kind of a failure is decided by the first rule that matches:
\* permission-denied when stderr mentions "permission denied" in any case;
\* otherwise storage-error when it mentions a storage marker; otherwise
\* tool-not-installed when the exit code is 127 or it mentions "not found";
\* otherwise command-failed.  Every failure gets exactly one of the four kinds.
C25_FirstMatchWins ==
    (pf.pc = "done" /\ pf.exit_code # 0) =>
       LET kind == pf.err[1].kind
           permission == StderrMentions(PermissionDeniedMarker)
           storage == \/ StderrMentions(CreatingStorageMarker)
                      \/ StderrMentions(ContainersStorageMarker)
           missing == pf.exit_code = 127 \/ StderrMentions(NotFoundMarker)
       IN /\ Len(pf.err) = 1
          /\ kind \in {"PermissionDenied", "StorageError", "NotInstalled", "CommandFailed"}
          /\ kind = "PermissionDenied" <=> permission
          /\ kind = "StorageError" <=> ~permission /\ storage
          /\ kind = "NotInstalled" <=> ~permission /\ ~storage /\ missing
          /\ kind = "CommandFailed" <=> ~permission /\ ~storage /\ ~missing

\* exit 127 with a storage marker and "Permission denied" on stderr is permission-denied
C25_Witness ==
    /\ pf.pc = "done" /\ pf.exit_code = 127
    /\ StderrMentions(PermissionDeniedMarker) /\ StderrMentions(ContainersStorageMarker)
    /\ pf.err[1].kind = "PermissionDenied"

\* C26: once a manifest write has completed, "latest" holds what the run-scoped
\* manifest of the write that completed last holds; the content of "latest"
\* always comes from a run whose run-scoped manifest is already written; and a
\* step of one run never changes the run-scoped manifest of another run.
C26_LatestIsLastWrite ==
    /\ [](/\ pf.completed # <<>> =>
               /\ fs.latest = fs.runs[pf.completed[Len(pf.completed)]]
               /\ fs.latest.written
          /\ fs.latest.written => fs.runs[fs.latest.run_id] = fs.latest
          /\ \A p \in Runs : run[p].pc = "latest" => fs.runs[p] = ManifestOf(p, run[p]))
    /\ [][\A p, q \in Runs :
            (p # q /\ run'[p] # run[p]) => fs'.runs[q] = fs.runs[q]]_vars

\* both runs have written their manifests, with different results; "latest" is
\* the one of run 1, which completed last
C26_Witness ==
    /\ pf.pc = "manifests" /\ pf.completed = <<2, 1>>
    /\ fs.runs[1].written /\ fs.runs[2].written
    /\ fs.runs[1].result # fs.runs[2].result
    /\ fs.latest = fs.runs[1]

\* the path has a component that is ".."
HasParentSegment(s) ==
    \E i \in 1..(Len(s) - 1) :
      /\ s[i] = "." /\ s[i + 1] = "."
      /\ (i = 1 \/ s[i - 1] = "/")
      /\ (i + 1 = Len(s) \/ s[i + 2] = "/")

\* the directory of the step exists on the host
WorkdirExists == IsSome(pf.rel) /\ pf.rel[1] \in pf.dirs

\* the working directory inside the container
MappedTo(rel) == IF IsSome(rel) THEN Work \o <<"/">> \o rel[1] ELSE Work

\* C28 as stated: a working directory with a leading slash, with a
\* parent-directory segment, or that does not exist is rejected and the
\* subprocess of the step is not started; every other one is accepted and mapped
\* to /work/<relative path>, and an absent one to /work.
C28_WorkdirRule ==
    pf.pc = "done" =>
      IF IsSome(pf.rel) /\ (\/ StartsWith(pf.rel[1], "/")
                            \/ HasParentSegment(pf.rel[1])
                            \/ ~WorkdirExists)
      THEN pf.outcome = "rejected" /\ ~pf.started
      ELSE pf.outcome = "accepted" /\ pf.display = MappedTo(pf.rel)

\* C28 amended: outside a dry run, a working directory with a leading slash,
\* with ".." anywhere in it, or that does not exist is rejected and the
\* subprocess of the step is not started; every other one is accepted and mapped
\* to /work/<relative path>, and an absent one to /work.  In a dry run the working
\* directory is not examined and no subprocess is started.
C28_WorkdirRuleWhenExecuted ==
    pf.pc = "done" =>
      IF pf.dry_run THEN pf.outcome = "dry" /\ ~pf.started /\ pf.err = None
      ELSE IF IsSome(pf.rel) /\ (\/ StartsWith(pf.rel[1], "/")
                                 \/ Contains(pf.rel[1], <<".", ".">>)
                                 \/ ~WorkdirExists)
      THEN pf.outcome = "rejected" /\ ~pf.started
      ELSE pf.outcome = "accepted" /\ pf.started /\ pf.display = MappedTo(pf.rel)

\* an existing directory whose name has two dots inside is rejected though it has
\* no parent-directory segment
C28_Witness ==
    /\ pf.pc = "done" /\ ~pf.dry_run
    /\ pf.rel = <<<<"a", ".", ".", "a">>>> /\ WorkdirExists
    /\ ~HasParentSegment(pf.rel[1])
    /\ pf.outcome = "rejected" /\ ~pf.started

\* the log file `path` of run p holds the complete output of step `name`
HoldsOutputOf(p, path, name) == [file |-> path, step |-> name] \in fs.logs[p]

\* C29: at the end of a run, the stdout and stderr paths of every step record
\* name files that hold the output of that step, and no two step records name
\* the same file.
C29_OwnLogFiles ==
    \A p \in Runs :
      run[p].pc = "done" =>
        LET recs == run[p].manifest_steps IN
        /\ \A k \in 1..Len(recs) :
             /\ IsSome(recs[k].stdout_path) =>
                  HoldsOutputOf(p, recs[k].stdout_path[1], recs[k].name)
             /\ IsSome(recs[k].stderr_path) =>
                  HoldsOutputOf(p, recs[k].stderr_path[1], recs[k].name)
        /\ \A j, k \in 1..Len(recs) :
             (j # k /\ IsSome(recs[j].stdout_path) /\ IsSome(recs[k].stdout_path)) =>
                recs[j].stdout_path # recs[k].stdout_path

\* C30: when the step exits non-zero, the chain of the error run returns holds
\* the PodmanRunError of the step, with the kind of its exit code and stderr,
\* and operator_hints_for_error returns the hint of that kind for it.
C30_StepErrorInChain ==
    (pf.pc \in {"main", "done"} /\ pf.exit_code # 0) =>
       /\ \E i \in 1..Len(pf.chain) :
            /\ pf.chain[i].type = "PodmanRunError"
            /\ pf.chain[i].kind = classify_failure(pf.exit_code, pf.stderr)
            /\ pf.chain[i].status = pf.exit_code
       /\ operator_hints_for_error(pf.chain)
            = <<hints_for_podman_kind(classify_failure(pf.exit_code, pf.stderr))>>

====
